---- MODULE Spec2Model ----
(***************************************************************************)
(* Resilient fetch pipeline of valorant_matches: the circuit breaker, the  *)
(* exponential backoff and the retry loop of _make_request, as run by the  *)
(* synchronous client (valorant_client.py) and the asynchronous client     *)
(* (async_client.py), and the part of process_match that follows a fetch.  *)
(*                                                                         *)
(* Time is the value time.time() returns, in whole seconds.  The clock is  *)
(* advanced by the environment (Tick) between the steps of the callers; a  *)
(* sleeping caller may resume after any amount of time, so every timing    *)
(* the program can show is a behaviour of the model.                       *)
(*                                                                         *)
(* Backoff delays are fractions of a second: they are kept as integers in  *)
(* units of 1/Scale second.                                                *)
(*                                                                         *)
(* Further specifications exercise parts of the program on their own: the  *)
(* AsyncRateLimiter (SpecLimiter), the thread pool of process_matches      *)
(* (SpecPool), the MatchCache through its public methods (SpecCache), its  *)
(* memory tier (SpecLru), and process_match with the cache, each call run  *)
(* to its end (SpecMatch).  The rate limiter and the thread pool have a    *)
(* clock in quarter seconds; the cache is given a ttl_seconds and a        *)
(* memory_size small enough for expiry and eviction to occur.  In these    *)
(* the file operations of the cache succeed and its files are well-formed. *)
(* SpecCorrupt adds files damaged from outside the program, SpecRace runs  *)
(* get, set and invalidate of one URL in two threads step by step, with    *)
(* sets that fail, and SpecBatch and SpecShort run the batch processors    *)
(* process_matches and process_matches_async over a list of links.         *)
(***************************************************************************)
EXTENDS Integers, Sequences, FiniteSets, TLC

\* ------------------------------------------------------------ constants
MAX_BACKOFF_DELAY == 30
CIRCUIT_BREAKER_THRESHOLD == 5
CIRCUIT_BREAKER_RESET_TIME == 60
MAX_RETRIES == 3
RETRY_DELAY == 1

\* config.RATE_LIMIT_DELAY (0.5 s) in the unit of the rate limiter's clock,
\* a quarter of a second.
RATE_LIMIT_DELAY == 2
MAX_WORKERS == 10
\* The connection limits of the aiohttp connector of the async client.
CONNECTOR_LIMIT == 20
CONNECTOR_LIMIT_PER_HOST == 10

\* ------------------------------------------------------------ bounds
\* The clock stops advancing at MaxTime.
MaxTime == 120
\* No failure is recorded once failure_count has reached MaxFailures.
MaxFailures == 6
\* time.time() % 1 takes the values k / JitterRes, k in 0 .. JitterRes - 1.
JitterRes == 3
\* Attempt indexes the backoff function is applied to: 0 .. MaxAttempt.
MaxAttempt == 7

\* The ttl_seconds and memory_size a MatchCache is constructed with, and the
\* time at which the clock of the cache stops advancing.
TtlSeconds == 1
MemorySize == 1
MaxCacheTime == 3

\* The memory_size of the MatchCache whose memory tier is exercised alone.
LruSize == 3
\* The calls made on the cache shared by threads.
MaxRaceCalls == 2
\* The longest list of match links given to a batch.
MaxLinks == 3
MaxShort == 2
\* The most links of a batch whose fetches are counted.
MaxConcLinks == 12
\* The calls of circuit-breaker methods made by the worker threads, and the
\* time at which their clock stops.
MaxBreakerCalls == 3
MaxBreakerClock == 120
\* The acquire() calls made where every call is to return.
MaxAcquires == 4
\* The longest score text formatted as an ETA.
MaxScoreLen == 3
\* The most anchors on an event page, and the most words in the name part
\* of an href.
MaxAnchors == 2
MaxWords == 2

\* The clock of the rate limiter and of the thread pool (quarter seconds)
\* stops advancing at MaxClock.
MaxClock == 7

\* The absent timestamp (None).
NoTime == -1

\* One second in backoff units: a quarter (the 0.25 of the jitter) of 1/JitterRes.
Scale == 4 * JitterRes

\* Amounts by which the clock advances in one step: just below the reset
\* window and exactly the reset window, so that elapsed times below, at and
\* above CIRCUIT_BREAKER_RESET_TIME all occur.
TickSteps == {CIRCUIT_BREAKER_RESET_TIME - 1, CIRCUIT_BREAKER_RESET_TIME}

\* The callers sharing one client: worker threads of the thread pool (sync)
\* or tasks of the event loop (async).
Tasks == {"t1", "t2"}

\* Which client class the program instantiated.
Kinds == {"sync", "async"}

\* What one HTTP attempt can yield: a response with a status code, or a
\* connection error, or a timeout.
Statuses == {200, 399, 400, 404, 429, 499, 500, 503}
Outcomes ==
    [type : {"response"}, status : Statuses]
        \cup [type : {"conn_error", "timeout"}, status : {0}]

\* The kinds of outcome the error taxonomy tells apart: a connection error
\* or timeout, a successful response, a response the taxonomy calls
\* retryable (status >= 500, or 429), and a permanent one (any other 4xx).
OutcomeClass(o) ==
    CASE o.type # "response" -> "error"
      [] o.status < 400 -> "ok"
      [] o.status >= 500 \/ o.status = 429 -> "retryable"
      [] OTHER -> "permanent"

\* What the fetched match page holds.  "malformed" is a page on which the
\* extraction code raises.
Pages == {"completed", "live", "upcoming", "tbd", "malformed"}

Min(a, b) == IF a <= b THEN a ELSE b

\* ------------------------------------------------------------ circuit breaker
\* A variant of CalculateBackoff that forgets the cap.
CalculateBackoffUncapped(attempt, k) ==
    LET delay == RETRY_DELAY * (2 ^ attempt)
        jitter == delay * k
    IN  delay * Scale + jitter

\* _calculate_backoff(attempt), with time.time() % 1 = k / JitterRes; the
\* result is in units of 1/Scale second.
CalculateBackoff(attempt, k) ==
    LET delay == RETRY_DELAY * (2 ^ attempt)
        \* jitter = delay * 0.25 * (k / JitterRes) seconds = delay * k units
        jitter == delay * k
    IN  Min(delay * Scale + jitter, MAX_BACKOFF_DELAY * Scale)

\* A variant of CheckCircuitBreaker with the comparison inverted: it lets a
\* request through while the window runs and blocks it afterwards.
CheckCircuitBreakerInverted(fc, ot, t) ==
    IF ot # NoTime
    THEN IF t - ot >= CIRCUIT_BREAKER_RESET_TIME
         THEN [raised |-> TRUE, failure_count |-> fc, circuit_open_time |-> ot]
         ELSE [raised |-> FALSE, failure_count |-> 0, circuit_open_time |-> NoTime]
    ELSE [raised |-> FALSE, failure_count |-> fc, circuit_open_time |-> ot]

\* A variant of CheckCircuitBreaker that still blocks when exactly the reset
\* window has elapsed.
CheckCircuitBreakerLate(fc, ot, t) ==
    IF ot # NoTime
    THEN IF t - ot <= CIRCUIT_BREAKER_RESET_TIME
         THEN [raised |-> TRUE, failure_count |-> fc, circuit_open_time |-> ot]
         ELSE [raised |-> FALSE, failure_count |-> 0, circuit_open_time |-> NoTime]
    ELSE [raised |-> FALSE, failure_count |-> fc, circuit_open_time |-> ot]

\* _check_circuit_breaker at time t: whether CircuitBreakerOpen is raised,
\* and the breaker state it leaves.
CheckCircuitBreaker(fc, ot, t) ==
    IF ot # NoTime
    THEN IF t - ot < CIRCUIT_BREAKER_RESET_TIME
         THEN [raised |-> TRUE, failure_count |-> fc, circuit_open_time |-> ot]
         ELSE [raised |-> FALSE, failure_count |-> 0, circuit_open_time |-> NoTime]
    ELSE [raised |-> FALSE, failure_count |-> fc, circuit_open_time |-> ot]

\* A variant of RecordSuccess that resets the count and keeps the timestamp.
RecordSuccessKeepsTimestamp(fc, ot) ==
    [failure_count |-> 0, circuit_open_time |-> ot]

\* A variant of RecordSuccess that takes one failure off the count.
RecordSuccessDecrements(fc, ot) ==
    [failure_count |-> IF fc > 0 THEN fc - 1 ELSE 0, circuit_open_time |-> NoTime]

\* _record_success
RecordSuccess(fc, ot) ==
    [failure_count |-> 0, circuit_open_time |-> NoTime]

\* A variant of RecordFailure that trips only above the threshold.
RecordFailureAboveThreshold(fc, ot, t) ==
    LET n == fc + 1
    IN  [failure_count |-> n,
         circuit_open_time |-> IF n > CIRCUIT_BREAKER_THRESHOLD THEN t ELSE ot]

\* _record_failure at time t
RecordFailure(fc, ot, t) ==
    LET n == fc + 1
    IN  [failure_count |-> n,
         circuit_open_time |-> IF n >= CIRCUIT_BREAKER_THRESHOLD THEN t ELSE ot]

\* ------------------------------------------------------------ one attempt
\* AsyncValorantClient._is_retryable_status
IsRetryableStatus(status) == status >= 500 \/ status = 429

\* Response.raise_for_status() of the sync client raises HTTPError, a
\* RequestException, for 4xx and 5xx responses.
RaisesForStatus(status) == status >= 400 /\ status < 600

\* A variant of SyncAttempt that also sleeps after the last attempt.
SyncAttemptSleepsLast(o, attempt, n) ==
    IF o.type = "response" /\ ~(o.status >= 400 /\ o.status < 600)
    THEN "success"
    ELSE IF attempt < n THEN "retry" ELSE "fail"

\* What the body of the retry loop of ValorantClient._make_request does with
\* the outcome o of attempt number attempt of n: "success" (record success, return
\* the document), "retry" (sleep the backoff, go round again) or "fail"
\* (record a failure, return None).
SyncAttempt(o, attempt, n) ==
    IF o.type = "response" /\ ~RaisesForStatus(o.status)
    THEN "success"
    ELSE IF attempt < n - 1 THEN "retry" ELSE "fail"

\* The same for AsyncValorantClient._make_request.
AsyncAttempt(o, attempt, n) ==
    IF o.type = "response"
    THEN IF o.status >= 400
         THEN IF IsRetryableStatus(o.status) /\ attempt < n - 1
              THEN "retry"
              ELSE "fail"
         ELSE "success"
    ELSE IF attempt < n - 1 THEN "retry" ELSE "fail"

\* The loop body of the client class k.
Attempt(k, o, attempt, n) ==
    IF k = "sync" THEN SyncAttempt(o, attempt, n)
    ELSE AsyncAttempt(o, attempt, n)

\* ------------------------------------------------------------ state
VARIABLES
    kind,               \* the client class in use
    retries,            \* the retries argument of _make_request
    now,                \* time.time()
    failure_count,      \* client._failure_count
    circuit_open_time,  \* client._circuit_open_time, NoTime for None
    task,               \* per caller: where it is in process_match / _make_request
    streak,             \* history: _record_failure calls since the breaker
                        \* was last reset (by a success or by the reset of
                        \* _check_circuit_breaker)
    backoff,            \* an application of _calculate_backoff
    equiv,              \* one request run by both client classes
    limiter,            \* an AsyncRateLimiter and the coroutines calling acquire()
    pool,               \* the thread pool of main.process_matches
    race,               \* threads inside get, set and invalidate of one MatchCache
    batch,              \* one run of process_matches / process_matches_async
    conc,               \* the link fetches of one batch that run at the same time
    breaker,            \* worker threads inside the circuit-breaker methods of
                        \* one ValorantClient
    listing,            \* one call of fetch_event_matches
    eta,                \* one upcoming match formatted by both clients
    cache,              \* a MatchCache: its memory tier and its directory
    op                  \* the latest call on the cache, or of process_match
                        \* with the cache enabled

vars == <<kind, retries, now, failure_count, circuit_open_time, task, streak,
          backoff, equiv, limiter, pool, race, batch, conc, breaker, listing, eta, cache, op>>

\* The variables the steps of a request never touch.
side == <<limiter, pool, race, batch, conc, breaker, listing, eta, cache, op>>
\* The variables of a client and its callers.
client == <<kind, retries, now, failure_count, circuit_open_time, task, streak,
            backoff, equiv>>
pure == <<backoff, equiv, side>>

NoBackoff == [applied |-> FALSE, attempt |-> 0, k |-> 0, k2 |-> 0,
              delay |-> 0, next |-> 0]
NoRun == [attempts |-> 0, soup |-> "pending", failure_count |-> 0,
          circuit_open_time |-> NoTime]
NoEquiv == [applied |-> FALSE, outs |-> <<>>, sync |-> NoRun, async |-> NoRun]

\* A caller that is not inside process_match.
IdleTask ==
    [pc |-> "idle",          \* idle, ready, inflight, sleep, parse, done
     attempt |-> 0,          \* the loop variable of _make_request
     check |-> "none",       \* branch _check_circuit_breaker took:
                             \*   passed, reset, rejected
     http |-> 0,             \* session.get calls made by this request
     sleeps |-> 0,           \* backoff sleeps started by this request
     recorded |-> 0,         \* _record_failure calls made by this request
     last |-> "none",        \* OutcomeClass of the latest attempt
     transient |-> TRUE,     \* every outcome so far was an error or a timeout
     soup |-> "pending",     \* what _make_request returned: doc, None
     page |-> "none",        \* what the document held
     result |-> "pending"]   \* what process_match returned: output, None

\* The coroutines sharing one AsyncRateLimiter.
Callers == {"a", "b", "c"}

\* time.time() when the limiter is constructed: the epoch clock is far more
\* than one delay away from the initial _last_request = 0.0.
LimiterEpoch == RATE_LIMIT_DELAY

\* A limiter just constructed, nobody inside acquire().
IdleLimiter ==
    [clock |-> LimiterEpoch,
     last_request |-> 0,                \* self._last_request
     holder |-> "none",                 \* who holds self._lock
     pc |-> [c \in Callers |-> "idle"], \* idle, queued, sleep, done
     wake |-> 0,                        \* when the holder's sleep is over
     acquired |-> 0,                    \* history: acquire() calls completed
     last_done |-> NoTime,              \* history: time of the latest completion
     gap |-> NoTime,                    \* history: least time between two
                                        \* consecutive completions
     undelayed |-> TRUE]                \* history: the first acquire() to get
                                        \* the lock did not sleep

\* The links given to process_matches, one worker thread each.
Workers == {"w1", "w2"}

\* process_matches not yet called.
IdlePool ==
    [clock |-> 0,
     pc |-> [w \in Workers |-> "queued"],  \* queued, ready, inflight, sleep,
                                           \* finished, collected
     attempt |-> [w \in Workers |-> 0],    \* loop variable of _make_request
     wake |-> [w \in Workers |-> 0],       \* end of the backoff sleep, in
                                           \* units of 1/Scale second
     main |-> "collect",                   \* the submitting thread: collect, sleep
     main_wake |-> 0,
     results |-> 0,                        \* futures collected
     last_get |-> NoTime,                  \* history: start of the latest GET
     gap |-> NoTime]                       \* history: least time between the
                                           \* starts of two consecutive GETs

\* The match URLs.
Urls == {"u1", "u2"}

\* _get_cache_key: the SHA-256 digest of the URL, distinct for distinct URLs.
GetCacheKey(url) == <<"sha256", url>>

\* What the cache stores: dataclasses.asdict of a Match.  Of its fields the
\* score stands for the text fields (teams, date, time, url match the key).
Scores == {"2:0", "1:2"}
MatchData == [score : Scores, is_live : BOOLEAN, is_upcoming : BOOLEAN]
\* A finished match.
Completed(score) == [score |-> score, is_live |-> FALSE, is_upcoming |-> FALSE]
\* None in place of cached data, and the file that is not there.
NoData == [score |-> "None", is_live |-> FALSE, is_upcoming |-> FALSE]
NoFile == [timestamp |-> NoTime, text |-> <<>>]

\* json.dump of a cache entry's data, and json.load of the file's text: an
\* object with string and boolean members.
JsonDump(data) ==
    <<"{", <<"score", data.score>>, <<"is_live", data.is_live>>,
           <<"is_upcoming", data.is_upcoming>>, "}">>
JsonLoad(text) ==
    [score |-> text[2][2], is_live |-> text[3][2], is_upcoming |-> text[4][2]]

\* Cache files that MatchCache.set did not write: a truncated object, an entry
\* without its timestamp or without its data, a JSON document that is not an
\* object, bytes that are not UTF-8, a file that open() refuses.
CorruptKinds ==
    {"bad_json", "no_timestamp", "no_data", "not_object", "not_utf8", "unreadable"}
CorruptFile(k, t) ==
    CASE k = "bad_json" -> [timestamp |-> NoTime, text |-> <<"{">>]
      [] k = "no_timestamp" -> [timestamp |-> NoTime, text |-> JsonDump(Completed("2:0"))]
      [] k = "no_data" -> [timestamp |-> t, text |-> <<"{", "}">>]
      [] k = "not_object" -> [timestamp |-> NoTime, text |-> <<"[", "]">>]
      [] k = "not_utf8" -> [timestamp |-> NoTime, text |-> <<"0xff">>]
      [] k = "unreadable" -> [timestamp |-> NoTime, text |-> <<"EACCES">>]

\* What open(cache_path, encoding="utf-8") and json.load(f) raise on a file.
LoadError(file) ==
    IF file.text = <<>> THEN "JSONDecodeError"
    ELSE IF file.text[1] = "EACCES" THEN "OSError"
    ELSE IF file.text[1] = "0xff" THEN "UnicodeDecodeError"
    ELSE IF file.text[1] = "{" /\ file.text[Len(file.text)] # "}" THEN "JSONDecodeError"
    ELSE "none"
\* What cached[member] raises on the loaded document.
SubscriptError(file, member) ==
    IF file.text[1] # "{" THEN "TypeError"
    ELSE IF member = "timestamp" /\ file.timestamp = NoTime THEN "KeyError"
    ELSE IF member = "data" /\ Len(file.text) < 5 THEN "KeyError"
    ELSE "none"
\* except (json.JSONDecodeError, KeyError, OSError)
Caught == {"JSONDecodeError", "KeyError", "OSError"}

\* A cache directory that does not exist yet and a MatchCache over it whose
\* constructor has not run.
EmptyCache ==
    [enabled |-> FALSE,                           \* self.enabled
     memory |-> <<>>,                             \* self._memory_cache, oldest first:
                                                  \*   [key, timestamp, data]
     dir |-> FALSE,                               \* cache_dir exists
     files |-> [u \in Urls |-> NoFile]]           \* <key>.json, by URL:
                                                  \*   [timestamp, text]

\* No call made yet; nothing ever written.
NoOp ==
    [name |-> "none",        \* get, set, invalidate, clear, clear_expired,
                             \* construct, process_match
     url |-> "none",
     time |-> 0,             \* time.time() during the call
     data |-> NoData,        \* what the call returned: the data of get
     flag |-> FALSE,         \*   the boolean of invalidate
     count |-> 0,            \*   the number of clear and clear_expired
     had |-> FALSE,          \* an entry for url was in some tier before the call
     found |-> NoData,       \* what a get(url) in place of the call would
                             \*   have returned
     changed |-> FALSE,      \* the call changed the memory tier or the files
     alt |-> FALSE,          \* flips at every call
     raised |-> "none",      \* the exception that left the call
     \* for calls of _memory_get and _memory_set:
     order |-> <<>>,         \* history: the keys of the memory tier, least
                             \*   recently used (hit by a get, or set) first
     full |-> FALSE,         \* the tier was at capacity before the call
     lru |-> <<>>,           \* the least recently used key before the call
     removed |-> {},         \* the keys of the entries the call popped
     \* for calls of process_match:
     upcoming_only |-> FALSE,
     consulted |-> FALSE,    \* cache.get was called
     http |-> 0,             \* HTTP GETs issued
     acquires |-> 0,         \* rate-limiter acquisitions
     fetched |-> "none",     \* the page _make_request fetched, if any
     breaker |-> <<0, NoTime>>,  \* failure count and open time before the call
     \* history: the latest set(url) on an enabled cache, and whether an
     \* invalidate(url) or a clear() followed it
     written |-> [u \in Urls |-> [time |-> NoTime, data |-> NoData, kept |-> FALSE]]]

\* The threads that share one MatchCache, and the URL they all use.
RaceThreads == {"t1", "t2"}
RaceUrl == "u1"
\* No temporary file; no result yet.
NoTmp == [made |-> FALSE, timestamp |-> NoTime, text |-> <<>>]
NoRet == [data |-> NoData, flag |-> FALSE, raised |-> "none", failed |-> FALSE]
\* No thread is inside a call.
IdleRace ==
    [pc |-> [t \in RaceThreads |-> "idle"],     \* where each thread is
     arg |-> [t \in RaceThreads |-> NoData],    \* the data of its set
     tmp |-> [t \in RaceThreads |-> NoTmp],     \* the file mkstemp gave it
     chunks |-> [t \in RaceThreads |-> 0],      \* how much json.dump has written
     loaded |-> [t \in RaceThreads |-> NoFile], \* what its get read from the file
     ret |-> [t \in RaceThreads |-> NoRet],     \* what its call returned
     calls |-> 0,                               \* calls started
     entries |-> {},                            \* history: the entries that sets
                                                \*   have started to write,
     log |-> <<>>,                              \*   the calls made: [name, data],
     failed |-> FALSE,                          \*   whether a set has failed,
     start |-> EmptyCache]                      \*   the cache before the calls

\* The values match links take (two links of the same value are equal, as two
\* equal dicts or two equal tags are), and the lists of them given to a batch.
LinkNames == {"a", "b"}
BatchInputs == UNION {[1 .. n -> LinkNames] : n \in 1 .. MaxLinks}
ShortInputs == UNION {[1 .. n -> LinkNames] : n \in 1 .. MaxShort}
ViewModes == {"all", "results", "upcoming"}
\* What happens inside process_match for a link: the page fetched holds a
\* finished, live, upcoming or TBD match; the request fails on the network or
\* is rejected by the open breaker (_make_request logs either and returns
\* None); the extraction or another call of the body raises; the coroutine
\* is cancelled.
RequestErrors == {"network_error", "circuit_open"}
BodyErrors == {"AttributeError", "KeyError", "RuntimeError"}
\* A page of an upcoming match shows either the text that the match has not
\* started ("upcoming") or a countdown to its start ("countdown").
FetchedPages == {"completed", "live", "upcoming", "countdown", "tbd"}
FetchEvents ==
    FetchedPages \cup RequestErrors \cup BodyErrors \cup {"CancelledError"}
\* The batch processors return a list only: no count comes with it.
NoCount == -1
\* Texts are sequences of pieces (characters or words).  None is the empty
\* sequence: no output of process_match is empty.
None == <<>>
NoOut == [result |-> <<"pending">>, raised |-> "none"]
\* MatchStats() as run_cli_mode creates it.
NoStats == [total |-> 0, displayed |-> 0, failed |-> 0, tbd_count |-> 0]
\* No batch is running.
IdleBatch ==
    [pc |-> "idle",              \* idle, running, returned, tallied
     k |-> "sync",               \* process_matches or process_matches_async
     links |-> <<>>,             \* match_links
     view_mode |-> "all",
     callback |-> FALSE,         \* a progress_callback was given
     ev |-> <<>>,                \* by position: what happened inside process_match
     out |-> <<>>,               \* by position: what process_match returned or raised
     queue |-> <<>>,             \* sync: the finished futures as_completed has
                                 \*   still to yield, first finished first
     results |-> <<>>,           \* the (link, result) pairs appended so far
     calls |-> 0,                \* invocations of progress_callback
     returned |-> <<>>,          \* the list returned
     tbd_count |-> NoCount,      \* the count returned with it
     stats |-> NoStats,          \* the tallies run_cli_mode reports
     raised |-> "none"]          \* the exception that left the batch processor

\* No batch runs its fetches.
IdleConc ==
    [pc |-> "idle",     \* idle, running, done
     k |-> "sync",      \* process_matches or process_matches_async
     total |-> 0,       \* len(match_links)
     waiting |-> 0,     \* sync: work items no worker thread has taken;
                        \*   async: coroutines that have no connection yet
     active |-> 0,      \* sync: process_match calls running in worker threads;
                        \*   async: requests holding a connection
     finished |-> 0]    \* fetches that have ended
\* The worker threads sharing one ValorantClient.
BreakerThreads == {"t1", "t2"}
\* No thread is inside a circuit-breaker method.
IdleBreaker ==
    [failure_count |-> 0,                       \* self._failure_count
     circuit_open_time |-> NoTime,              \* self._circuit_open_time
     clock |-> 0,                               \* time.time()
     pc |-> [t \in BreakerThreads |-> "idle"],  \* where each thread stands
     tmp |-> [t \in BreakerThreads |-> 0],      \* the value a thread has read
     calls |-> 0,                               \* calls begun
     failures |-> 0,                            \* _record_failure calls ended
     others |-> FALSE,                          \* another method was called
     raised |-> "none",                         \* the latest exception of
                                                \*   _check_circuit_breaker
     start |-> 0]                               \* failure_count before the calls
\* fetch_event_matches not called.
IdleListing ==
    [pc |-> "idle",          \* idle, called, returned
     soup |-> FALSE,         \* _make_request(event_url) returned a document
     anchors |-> <<>>,       \* the href of each <a href=...> of the document
     event_slug |-> <<>>,    \* the argument (None: the empty text)
     url_slug |-> <<>>,      \* the slug in event_url (none: the empty text)
     returned |-> <<>>]      \* the list returned
\* Nothing formatted.
IdleEta ==
    [pc |-> "idle",         \* idle, given, formatted
     score |-> <<>>,        \* the score text of the upcoming match
     format_eta |-> <<>>,   \* match_extractor.format_eta(score)
     sync |-> <<>>,         \* ValorantClient._format_match_output(match)
     async |-> <<>>]        \* AsyncValorantClient._format_match_output(match)

SideInit ==
    /\ limiter = IdleLimiter
    /\ pool = IdlePool
    /\ race = IdleRace
    /\ batch = IdleBatch
    /\ conc = IdleConc
    /\ breaker = IdleBreaker
    /\ listing = IdleListing
    /\ eta = IdleEta
    /\ cache = EmptyCache
    /\ op = NoOp

\* A client just constructed, nothing in progress.
ClientInit ==
    /\ kind = "sync"
    /\ retries = MAX_RETRIES
    /\ now = 0
    /\ failure_count = 0
    /\ circuit_open_time = NoTime
    /\ task = [t \in Tasks |-> IdleTask]
    /\ streak = 0
    /\ backoff = NoBackoff
    /\ equiv = NoEquiv

Init ==
    /\ kind \in Kinds
    /\ retries \in 1 .. MAX_RETRIES
    /\ now = 0
    /\ failure_count = 0
    /\ circuit_open_time = NoTime
    /\ task = [t \in Tasks |-> IdleTask]
    /\ streak = 0
    /\ backoff = NoBackoff
    /\ equiv = NoEquiv
    /\ SideInit

\* ------------------------------------------------------------ actions
\* The environment: time passes.
Tick(d) ==
    /\ now + d <= MaxTime
    /\ now' = now + d
    /\ UNCHANGED <<pure, kind, retries, failure_count, circuit_open_time, task, streak>>

\* process_match is called (the cache is disabled, so it goes straight to
\* _make_request), and _make_request checks the circuit breaker: it returns
\* None when the breaker is open, and enters the retry loop otherwise.
Start(t) ==
    /\ task[t].pc = "idle"
    /\ LET chk == CheckCircuitBreaker(failure_count, circuit_open_time, now)
       IN  /\ failure_count' = chk.failure_count
           /\ circuit_open_time' = chk.circuit_open_time
           /\ IF chk.raised
              THEN /\ task' = [task EXCEPT ![t] =
                            [IdleTask EXCEPT !.pc = "done",
                                !.check = "rejected", !.soup = "None",
                                !.result = "None"]]
                   /\ UNCHANGED streak
              ELSE /\ task' = [task EXCEPT ![t] =
                            [IdleTask EXCEPT !.pc = "ready",
                                !.check = IF circuit_open_time # NoTime
                                          THEN "reset" ELSE "passed"]]
                   /\ streak' = IF circuit_open_time # NoTime THEN 0 ELSE streak
    /\ UNCHANGED <<pure, kind, retries, now>>

\* The caller issues the HTTP GET of the current attempt (in the async
\* client, once the rate limiter has let it through).
IssueGet(t) ==
    /\ task[t].pc = "ready"
    /\ task' = [task EXCEPT ![t].pc = "inflight", ![t].http = @ + 1]
    /\ UNCHANGED <<pure, kind, retries, now, failure_count, circuit_open_time, streak>>

Seen(t, o) ==
    [task[t] EXCEPT !.last = OutcomeClass(o),
                    !.transient = @ /\ o.type # "response"]

\* The attempt succeeded: _record_success, return the document.
RespondSuccess(t, o) ==
    /\ task[t].pc = "inflight"
    /\ Attempt(kind, o, task[t].attempt, retries) = "success"
    /\ LET b == RecordSuccess(failure_count, circuit_open_time)
       IN  /\ failure_count' = b.failure_count
           /\ circuit_open_time' = b.circuit_open_time
    /\ streak' = 0
    /\ task' = [task EXCEPT ![t] = [Seen(t, o) EXCEPT !.pc = "parse", !.soup = "doc"]]
    /\ UNCHANGED <<pure, kind, retries, now>>

\* The attempt failed and is retried: the caller sleeps for
\* _calculate_backoff(attempt) (CalculateBackoff(task[t].attempt, k) for the
\* k the clock yields).
RespondRetry(t, o) ==
    /\ task[t].pc = "inflight"
    /\ Attempt(kind, o, task[t].attempt, retries) = "retry"
    /\ task' = [task EXCEPT ![t] =
            [Seen(t, o) EXCEPT !.pc = "sleep", !.sleeps = @ + 1]]
    /\ UNCHANGED <<pure, kind, retries, now, failure_count, circuit_open_time, streak>>

\* The attempt failed for good: _record_failure, return None; process_match
\* returns None in turn.
RespondFail(t, o) ==
    /\ task[t].pc = "inflight"
    /\ Attempt(kind, o, task[t].attempt, retries) = "fail"
    /\ failure_count < MaxFailures
    /\ LET b == RecordFailure(failure_count, circuit_open_time, now)
       IN  /\ failure_count' = b.failure_count
           /\ circuit_open_time' = b.circuit_open_time
    /\ streak' = streak + 1
    /\ task' = [task EXCEPT ![t] =
            [Seen(t, o) EXCEPT !.pc = "done", !.recorded = @ + 1,
                               !.soup = "None", !.result = "None"]]
    /\ UNCHANGED <<pure, kind, retries, now>>

\* The sleep is over: the loop goes to the next attempt, or ends (and
\* _make_request returns None) when there is none left.
Wake(t) ==
    /\ task[t].pc = "sleep"
    /\ IF task[t].attempt + 1 < retries
       THEN task' = [task EXCEPT ![t].pc = "ready", ![t].attempt = @ + 1,
                                 ![t].last = "none"]
       ELSE task' = [task EXCEPT ![t].pc = "done", ![t].attempt = @ + 1,
                                 ![t].soup = "None", ![t].result = "None"]
    /\ UNCHANGED <<pure, kind, retries, now, failure_count, circuit_open_time, streak>>

\* What process_match returns for a fetched page.
ProcessPage(page, upcoming_only) ==
    CASE page = "malformed" -> "None"
      [] page = "tbd" -> "None"
      [] page = "completed" -> IF upcoming_only THEN "None" ELSE "output"
      [] OTHER -> "output"

\* process_match extracts the match from the document and returns.
Extract(t, page, upcoming_only) ==
    /\ task[t].pc = "parse"
    /\ task' = [task EXCEPT ![t].pc = "done", ![t].page = page,
                            ![t].result = ProcessPage(page, upcoming_only)]
    /\ UNCHANGED <<pure, kind, retries, now, failure_count, circuit_open_time, streak>>

\* The caller has its result and is free for the next link.
Return(t) ==
    /\ task[t].pc = "done"
    /\ task' = [task EXCEPT ![t] = IdleTask]
    /\ UNCHANGED <<pure, kind, retries, now, failure_count, circuit_open_time, streak>>

Next ==
    \/ \E d \in TickSteps : Tick(d)
    \/ \E t \in Tasks : Start(t)
    \/ \E t \in Tasks : IssueGet(t)
    \/ \E t \in Tasks, o \in Outcomes : RespondSuccess(t, o)
    \/ \E t \in Tasks, o \in Outcomes : RespondRetry(t, o)
    \/ \E t \in Tasks, o \in Outcomes : RespondFail(t, o)
    \/ \E t \in Tasks : Wake(t)
    \/ \E t \in Tasks, page \in Pages, u \in BOOLEAN : Extract(t, page, u)
    \/ \E t \in Tasks : Return(t)

Spec == Init /\ [][Next]_vars

\* ------------------------------------------------------------ the backoff alone
\* _calculate_backoff applied to an attempt index and to the next one, each
\* with its own reading of the clock.
BackoffInit ==
    /\ kind = "sync"
    /\ retries = MAX_RETRIES
    /\ now = 0
    /\ failure_count = 0
    /\ circuit_open_time = NoTime
    /\ task = [t \in Tasks |-> IdleTask]
    /\ streak = 0
    /\ equiv = NoEquiv
    /\ SideInit
    /\ backoff \in [applied : {FALSE}, attempt : 0 .. MaxAttempt,
                    k : 0 .. JitterRes - 1, k2 : 0 .. JitterRes - 1,
                    delay : {0}, next : {0}]

ApplyBackoff ==
    /\ ~backoff.applied
    /\ backoff' = [backoff EXCEPT
            !.applied = TRUE,
            !.delay = CalculateBackoff(backoff.attempt, backoff.k),
            !.next = CalculateBackoff(backoff.attempt + 1, backoff.k2)]
    /\ UNCHANGED <<kind, retries, now, failure_count, circuit_open_time, task,
                   streak, equiv, side>>

SpecBackoff == BackoffInit /\ [][ApplyBackoff]_vars

\* ------------------------------------------------------------ one request, both clients
\* The retry loop of _make_request of client class k from attempt number
\* attempt on, fed the outcomes outs (one per attempt), with the breaker in
\* state (fc, ot) and the clock at t: the number of HTTP attempts made, what
\* is returned and the breaker state left.
RECURSIVE RetryLoop(_, _, _, _, _, _, _)
RetryLoop(k, outs, attempt, n, fc, ot, t) ==
    IF attempt >= n
    THEN [attempts |-> attempt, soup |-> "None",
          failure_count |-> fc, circuit_open_time |-> ot]
    ELSE LET v == Attempt(k, outs[attempt + 1], attempt, n)
         IN  CASE v = "success" ->
                    LET b == RecordSuccess(fc, ot)
                    IN  [attempts |-> attempt + 1, soup |-> "doc",
                         failure_count |-> b.failure_count,
                         circuit_open_time |-> b.circuit_open_time]
               [] v = "fail" ->
                    LET b == RecordFailure(fc, ot, t)
                    IN  [attempts |-> attempt + 1, soup |-> "None",
                         failure_count |-> b.failure_count,
                         circuit_open_time |-> b.circuit_open_time]
               [] OTHER -> RetryLoop(k, outs, attempt + 1, n, fc, ot, t)

\* _make_request of client class k run from start to end.
MakeRequest(k, outs, n, fc, ot, t) ==
    LET chk == CheckCircuitBreaker(fc, ot, t)
    IN  IF chk.raised
        THEN [attempts |-> 0, soup |-> "None",
              failure_count |-> fc, circuit_open_time |-> ot]
        ELSE RetryLoop(k, outs, 0, n, chk.failure_count, chk.circuit_open_time, t)

\* The breaker states a client can be in when a request starts: closed below
\* the threshold, or open since some earlier time.
EquivTimes == {0, CIRCUIT_BREAKER_RESET_TIME - 1, CIRCUIT_BREAKER_RESET_TIME}

EquivInit ==
    /\ kind = "sync"
    /\ retries \in 1 .. MAX_RETRIES
    /\ now \in EquivTimes
    /\ failure_count \in 0 .. MaxFailures
    /\ circuit_open_time \in {NoTime} \cup {x \in EquivTimes : x <= now}
    /\ (circuit_open_time # NoTime) <=> (failure_count >= CIRCUIT_BREAKER_THRESHOLD)
    /\ task = [t \in Tasks |-> IdleTask]
    /\ streak = failure_count
    /\ backoff = NoBackoff
    /\ SideInit
    /\ equiv \in [applied : {FALSE}, outs : [1 .. retries -> Outcomes],
                  sync : {NoRun}, async : {NoRun}]

\* The same request is given to a ValorantClient and to an
\* AsyncValorantClient in the same breaker state.
RunBoth ==
    /\ ~equiv.applied
    /\ equiv' = [equiv EXCEPT
            !.applied = TRUE,
            !.sync = MakeRequest("sync", equiv.outs, retries, failure_count,
                                 circuit_open_time, now),
            !.async = MakeRequest("async", equiv.outs, retries, failure_count,
                                  circuit_open_time, now)]
    /\ UNCHANGED <<kind, retries, now, failure_count, circuit_open_time, task,
                   streak, backoff, side>>

SpecEquiv == EquivInit /\ [][RunBoth]_vars

\* ------------------------------------------------------------ the rate limiter
\* How long acquire() sleeps when it reads the clock at t with
\* _last_request = last.
AcquireSleepShort(t, last, d) ==
    IF t - last < d THEN d - (t - last) - 1 ELSE 0

AcquireSleep(t, last, d) ==
    IF t - last < d THEN d - (t - last) ELSE 0

LimiterInit ==
    /\ ClientInit
    /\ limiter = IdleLimiter
    /\ pool = IdlePool
    /\ race = IdleRace
    /\ batch = IdleBatch
    /\ conc = IdleConc
    /\ breaker = IdleBreaker
    /\ listing = IdleListing
    /\ eta = IdleEta
    /\ cache = EmptyCache
    /\ op = NoOp

LimiterTick ==
    /\ limiter.clock < MaxClock
    /\ limiter' = [limiter EXCEPT !.clock = @ + 1]
    /\ UNCHANGED <<client, pool, race, batch, conc, breaker, listing, eta, cache, op>>

\* A coroutine calls acquire() and waits for the lock.
AcquireCall(c) ==
    /\ limiter.pc[c] = "idle"
    /\ limiter' = [limiter EXCEPT !.pc[c] = "queued"]
    /\ UNCHANGED <<client, pool, race, batch, conc, breaker, listing, eta, cache, op>>

\* The acquire() call that completes at time t: _last_request and the
\* lock are updated, the history is extended.
AcquireDoneKeepsLock(l, c, t) ==
    [l EXCEPT !.pc[c] = "done", !.last_request = t, !.acquired = @ + 1,
              !.last_done = t]
AcquireDone(l, c, t) ==
    [l EXCEPT !.pc[c] = "done", !.holder = "none", !.last_request = t,
              !.acquired = @ + 1, !.last_done = t,
              !.gap = IF l.last_done = NoTime THEN l.gap
                      ELSE IF l.gap = NoTime THEN t - l.last_done
                      ELSE Min(l.gap, t - l.last_done)]

\* The coroutine gets the lock and reads the clock; it either starts its sleep,
\* or records the time and releases the lock at once (no await in between).
AcquireEnter(c) ==
    /\ limiter.pc[c] = "queued"
    /\ limiter.holder = "none"
    /\ LET sl == AcquireSleep(limiter.clock, limiter.last_request, RATE_LIMIT_DELAY)
       IN  IF sl > 0
           THEN limiter' = [limiter EXCEPT !.pc[c] = "sleep", !.holder = c,
                                !.wake = limiter.clock + sl,
                                !.undelayed = @ /\ limiter.acquired > 0]
           ELSE limiter' = AcquireDone(limiter, c, limiter.clock)
    /\ UNCHANGED <<client, pool, race, batch, conc, breaker, listing, eta, cache, op>>

\* asyncio.sleep returns, no earlier than asked: the time is recorded and the
\* lock released.
AcquireWake(c) ==
    /\ limiter.pc[c] = "sleep"
    /\ limiter.clock >= limiter.wake
    /\ limiter' = AcquireDone(limiter, c, limiter.clock)
    /\ UNCHANGED <<client, pool, race, batch, conc, breaker, listing, eta, cache, op>>

\* The caller goes on (to its HTTP request) and may call acquire() again.
AcquireReturn(c) ==
    /\ limiter.pc[c] = "done"
    /\ limiter' = [limiter EXCEPT !.pc[c] = "idle"]
    /\ UNCHANGED <<client, pool, race, batch, conc, breaker, listing, eta, cache, op>>

LimiterNext ==
    \/ LimiterTick
    \/ \E c \in Callers : AcquireCall(c)
    \/ \E c \in Callers : AcquireEnter(c)
    \/ \E c \in Callers : AcquireWake(c)
    \/ \E c \in Callers : AcquireReturn(c)

SpecLimiter == LimiterInit /\ [][LimiterNext]_vars

\* The same limiter with a bounded number of calls and a clock that does not
\* stop while a sleep is pending, so that every sleep can end.
TimePasses ==
    /\ \/ limiter.clock < MaxClock
       \/ \E c \in Callers : limiter.pc[c] = "sleep" /\ limiter.clock < limiter.wake
    /\ limiter' = [limiter EXCEPT !.clock = @ + 1]
    /\ UNCHANGED <<client, pool, race, batch, conc, breaker, listing, eta, cache, op>>

AcquireCallBounded(c) ==
    /\ limiter.acquired + Cardinality({e \in Callers : limiter.pc[e] \in {"queued", "sleep"}})
            < MaxAcquires
    /\ AcquireCall(c)

LimiterFairNext ==
    \/ TimePasses
    \/ \E c \in Callers : AcquireCallBounded(c)
    \/ \E c \in Callers : AcquireEnter(c)
    \/ \E c \in Callers : AcquireWake(c)
    \/ \E c \in Callers : AcquireReturn(c)

\* The event loop runs every coroutine that can go on: time passes, a sleep
\* that is over returns, and asyncio.Lock wakes its waiters first come first
\* served, so that a waiter is not passed over for ever.
SpecLimiterFair ==
    /\ LimiterInit
    /\ [][LimiterFairNext]_vars
    /\ WF_vars(TimePasses)
    /\ \A c \in Callers :
        /\ SF_vars(AcquireEnter(c))
        /\ WF_vars(AcquireWake(c))
        /\ WF_vars(AcquireReturn(c))

\* ------------------------------------------------------------ the thread pool
\* One tick of the pool's clock in the unit of the backoff delays.
TickUnits == Scale \div 4

PoolInit ==
    /\ ClientInit
    /\ limiter = IdleLimiter
    /\ pool = IdlePool
    /\ race = IdleRace
    /\ batch = IdleBatch
    /\ conc = IdleConc
    /\ breaker = IdleBreaker
    /\ listing = IdleListing
    /\ eta = IdleEta
    /\ cache = EmptyCache
    /\ op = NoOp

PoolTick ==
    /\ pool.clock < MaxClock
    /\ pool' = [pool EXCEPT !.clock = @ + 1]
    /\ UNCHANGED <<client, limiter, race, batch, conc, breaker, listing, eta, cache, op>>

\* The executor starts a worker thread on a submitted link (at most
\* MAX_WORKERS at a time); the worker enters process_match and the retry loop
\* of _make_request.
PoolRun(w) ==
    /\ pool.pc[w] = "queued"
    /\ Cardinality({x \in Workers :
            pool.pc[x] \in {"ready", "inflight", "sleep"}}) < MAX_WORKERS
    /\ pool' = [pool EXCEPT !.pc[w] = "ready"]
    /\ UNCHANGED <<client, limiter, race, batch, conc, breaker, listing, eta, cache, op>>

\* The worker calls session.get.
PoolGet(w) ==
    /\ pool.pc[w] = "ready"
    /\ pool' = [pool EXCEPT !.pc[w] = "inflight",
                            !.last_get = pool.clock,
                            !.gap = IF pool.last_get = NoTime THEN pool.gap
                                    ELSE IF pool.gap = NoTime
                                         THEN pool.clock - pool.last_get
                                    ELSE Min(pool.gap, pool.clock - pool.last_get)]
    /\ UNCHANGED <<client, limiter, race, batch, conc, breaker, listing, eta, cache, op>>

\* The outcome of the GET: the worker's process_match ends, or the attempt
\* is retried after time.sleep(_calculate_backoff(attempt)).
PoolRespond(w, o, k) ==
    /\ pool.pc[w] = "inflight"
    /\ IF SyncAttempt(o, pool.attempt[w], MAX_RETRIES) = "retry"
       THEN pool' = [pool EXCEPT !.pc[w] = "sleep",
                        !.wake[w] = pool.clock * TickUnits
                                    + CalculateBackoff(pool.attempt[w], k)]
       ELSE pool' = [pool EXCEPT !.pc[w] = "finished"]
    /\ UNCHANGED <<client, limiter, race, batch, conc, breaker, listing, eta, cache, op>>

PoolWake(w) ==
    /\ pool.pc[w] = "sleep"
    /\ pool.clock * TickUnits >= pool.wake[w]
    /\ pool' = [pool EXCEPT !.pc[w] = "ready", !.attempt[w] = @ + 1]
    /\ UNCHANGED <<client, limiter, race, batch, conc, breaker, listing, eta, cache, op>>

\* The submitting thread takes a completed future, adds its result, and
\* sleeps for RATE_LIMIT_DELAY.
PoolCollect(w) ==
    /\ pool.main = "collect"
    /\ pool.pc[w] = "finished"
    /\ pool' = [pool EXCEPT !.pc[w] = "collected", !.results = @ + 1,
                            !.main = "sleep",
                            !.main_wake = pool.clock + RATE_LIMIT_DELAY]
    /\ UNCHANGED <<client, limiter, race, batch, conc, breaker, listing, eta, cache, op>>

PoolMainWake ==
    /\ pool.main = "sleep"
    /\ pool.clock >= pool.main_wake
    /\ pool' = [pool EXCEPT !.main = "collect"]
    /\ UNCHANGED <<client, limiter, race, batch, conc, breaker, listing, eta, cache, op>>

PoolNext ==
    \/ PoolTick
    \/ \E w \in Workers : PoolRun(w)
    \/ \E w \in Workers : PoolGet(w)
    \/ \E w \in Workers, o \in Outcomes, k \in 0 .. JitterRes - 1 :
            PoolRespond(w, o, k)
    \/ \E w \in Workers : PoolWake(w)
    \/ \E w \in Workers : PoolCollect(w)
    \/ PoolMainWake

SpecPool == PoolInit /\ [][PoolNext]_vars

\* ------------------------------------------------- the links of an event
\* Texts are sequences of pieces: "/", "-", a number, a word.
NumberPieces == {"123"}
WordPieces == {"vct", "VCT", "challengers"}
\* str.lower(): the pieces with a capital letter, in lower case.
Lower(text) ==
    [i \in DOMAIN text |->
        CASE text[i] = "Match" -> "match"
          [] text[i] = "VCT" -> "vct"
          [] OTHER -> text[i]]
\* The words joined by hyphens.
RECURSIVE Join(_)
Join(words) ==
    IF Len(words) = 0 THEN <<>>
    ELSE IF Len(words) = 1 THEN words
    ELSE <<words[1], "-">> \o Join(Tail(words))
WordLists == UNION {[1 .. n -> WordPieces] : n \in 1 .. MaxWords}
\* The hrefs of an event page: /123/<words> for a match, /event/<words> for
\* another page of the site, the words being those of the event, with or
\* without the word of a team before them.
Hrefs ==
    {<<"/", first, "/">> \o team \o Join(words) :
        first \in NumberPieces \cup {"event"}, team \in {<<>>, <<"a", "-">>},
        words \in WordLists}
AnchorLists == UNION {[1 .. n -> Hrefs] : n \in 1 .. MaxAnchors}
\* The slugs of the events: one is a segment of the other.
EventSlugs == {Join(<<"vct">>), Join(<<"VCT">>), Join(<<"challengers", "vct">>)}

\* MATCH_URL_PATTERN.match(href), the pattern being ^/\d+/ .
MatchUrlPattern(href) ==
    /\ Len(href) >= 3
    /\ href[1] = "/" /\ href[2] \in NumberPieces /\ href[3] = "/"

\* re.compile(rf"(^|-)({escaped_slug})(-|$)").search(text): the slug stands
\* at the start of the text or after a hyphen, and at the end of the text or
\* before a hyphen.
SlugSearch(slug, text) ==
    \E i \in 1 .. Len(text) - Len(slug) + 1 :
        /\ i = 1 \/ text[i - 1] = "-"
        /\ SubSeq(text, i, i + Len(slug) - 1) = slug
        /\ i + Len(slug) - 1 = Len(text) \/ text[i + Len(slug)] = "-"

\* The slug fetch_event_matches filters with: the argument, else the one
\* found in the URL.
KnownSlug(event_slug, url_slug) ==
    IF event_slug # <<>> THEN event_slug ELSE url_slug

\* The loop over soup.find_all("a", href=True).
FetchEventMatches(soup, anchors, event_slug, url_slug) ==
    LET slug == KnownSlug(event_slug, url_slug)
        keep(href) ==
            /\ MatchUrlPattern(href)
            /\ slug # <<>> => SlugSearch(Lower(slug), Lower(href))
    IN  IF ~soup THEN <<>> ELSE SelectSeq(anchors, keep)

ListingInit ==
    /\ ClientInit
    /\ limiter = IdleLimiter
    /\ pool = IdlePool
    /\ race = IdleRace
    /\ batch = IdleBatch
    /\ conc = IdleConc
    /\ breaker = IdleBreaker
    /\ listing \in [pc : {"called"}, soup : BOOLEAN, anchors : AnchorLists,
                     event_slug : {<<>>} \cup EventSlugs,
                     url_slug : {<<>>} \cup EventSlugs,
                     returned : {<<>>}]
    /\ eta = IdleEta
    /\ cache = EmptyCache
    /\ op = NoOp

\* fetch_event_matches(event_url, event_slug) returns.
ListLinks ==
    /\ listing.pc = "called"
    /\ listing' = [listing EXCEPT
                    !.pc = "returned",
                    !.returned = FetchEventMatches(listing.soup, listing.anchors,
                                    listing.event_slug, listing.url_slug)]
    /\ UNCHANGED <<client, limiter, pool, race, batch, conc, breaker, eta, cache, op>>

SpecListing == ListingInit /\ [][ListLinks]_vars

\* ------------------------------------ the circuit breaker under threads
\* The worker threads of process_matches call the circuit-breaker methods of
\* the one client with no lock: a thread can be switched out between two
\* accesses of an attribute.
\* A client as requests leave it: closed with some failures counted, or open.
BreakerInit ==
    /\ ClientInit
    /\ limiter = IdleLimiter
    /\ pool = IdlePool
    /\ race = IdleRace
    /\ batch = IdleBatch
    /\ conc = IdleConc
    /\ \E fc \in {0, CIRCUIT_BREAKER_THRESHOLD - 2, CIRCUIT_BREAKER_THRESHOLD - 1,
                   CIRCUIT_BREAKER_THRESHOLD} :
            breaker = [IdleBreaker EXCEPT
                        !.failure_count = fc, !.start = fc,
                        !.circuit_open_time =
                            IF fc >= CIRCUIT_BREAKER_THRESHOLD THEN 0 ELSE NoTime]
    /\ listing = IdleListing
    /\ eta = IdleEta
    /\ cache = EmptyCache
    /\ op = NoOp

BreakerRest == <<client, limiter, pool, race, batch, conc, listing, eta, cache, op>>

BreakerTick ==
    /\ breaker.clock < MaxBreakerClock
    /\ breaker' = [breaker EXCEPT !.clock = @ + CIRCUIT_BREAKER_RESET_TIME]
    /\ UNCHANGED BreakerRest

\* A thread calls _record_failure, _record_success or _check_circuit_breaker.
BreakerCall(t, method) ==
    /\ breaker.pc[t] = "idle" /\ breaker.calls < MaxBreakerCalls
    /\ breaker' = [breaker EXCEPT
                    !.pc[t] = method, !.calls = @ + 1,
                    !.others = @ \/ method # "failure_read"]
    /\ UNCHANGED BreakerRest

\* _record_failure: self._failure_count += 1 reads the attribute ...
FailureRead(t) ==
    /\ breaker.pc[t] = "failure_read"
    /\ breaker' = [breaker EXCEPT !.pc[t] = "failure_write",
                                  !.tmp[t] = breaker.failure_count]
    /\ UNCHANGED BreakerRest
\* ... and stores the sum.
FailureWrite(t) ==
    /\ breaker.pc[t] = "failure_write"
    /\ breaker' = [breaker EXCEPT !.pc[t] = "failure_test",
                                  !.failure_count = breaker.tmp[t] + 1]
    /\ UNCHANGED BreakerRest
\* if self._failure_count >= CIRCUIT_BREAKER_THRESHOLD
FailureTest(t) ==
    /\ breaker.pc[t] = "failure_test"
    /\ breaker' = IF breaker.failure_count >= CIRCUIT_BREAKER_THRESHOLD
                  THEN [breaker EXCEPT !.pc[t] = "failure_open"]
                  ELSE [breaker EXCEPT !.pc[t] = "idle", !.failures = @ + 1]
    /\ UNCHANGED BreakerRest
\* self._circuit_open_time = time.time()
FailureOpen(t) ==
    /\ breaker.pc[t] = "failure_open"
    /\ breaker' = [breaker EXCEPT !.pc[t] = "idle", !.failures = @ + 1,
                                  !.circuit_open_time = breaker.clock]
    /\ UNCHANGED BreakerRest

\* _record_success: self._failure_count = 0 ...
SuccessCount(t) ==
    /\ breaker.pc[t] = "success_count"
    /\ breaker' = [breaker EXCEPT !.pc[t] = "success_time", !.failure_count = 0]
    /\ UNCHANGED BreakerRest
\* ... self._circuit_open_time = None
SuccessTime(t) ==
    /\ breaker.pc[t] = "success_time"
    /\ breaker' = [breaker EXCEPT !.pc[t] = "idle", !.circuit_open_time = NoTime]
    /\ UNCHANGED BreakerRest

\* _check_circuit_breaker: if self._circuit_open_time is not None
CheckTest(t) ==
    /\ breaker.pc[t] = "check_test"
    /\ breaker' = [breaker EXCEPT
                    !.pc[t] = IF breaker.circuit_open_time = NoTime
                              THEN "idle" ELSE "check_elapsed",
                    !.raised = "none"]
    /\ UNCHANGED BreakerRest
\* elapsed = time.time() - self._circuit_open_time (a second read: None
\* by now raises TypeError); raise CircuitBreakerOpen inside the window.
CheckElapsed(t) ==
    /\ breaker.pc[t] = "check_elapsed"
    /\ breaker' =
        IF breaker.circuit_open_time = NoTime
        THEN [breaker EXCEPT !.pc[t] = "idle", !.raised = "TypeError"]
        ELSE IF breaker.clock - breaker.circuit_open_time < CIRCUIT_BREAKER_RESET_TIME
        THEN [breaker EXCEPT !.pc[t] = "idle", !.raised = "CircuitBreakerOpen"]
        ELSE [breaker EXCEPT !.pc[t] = "check_time"]
    /\ UNCHANGED BreakerRest
\* self._circuit_open_time = None
CheckTime(t) ==
    /\ breaker.pc[t] = "check_time"
    /\ breaker' = [breaker EXCEPT !.pc[t] = "check_count", !.circuit_open_time = NoTime]
    /\ UNCHANGED BreakerRest
\* self._failure_count = 0
CheckCount(t) ==
    /\ breaker.pc[t] = "check_count"
    /\ breaker' = [breaker EXCEPT !.pc[t] = "idle", !.failure_count = 0]
    /\ UNCHANGED BreakerRest

BreakerNext ==
    \/ BreakerTick
    \/ \E t \in BreakerThreads,
           method \in {"failure_read", "success_count", "check_test"} :
            BreakerCall(t, method)
    \/ \E t \in BreakerThreads : FailureRead(t)
    \/ \E t \in BreakerThreads : FailureWrite(t)
    \/ \E t \in BreakerThreads : FailureTest(t)
    \/ \E t \in BreakerThreads : FailureOpen(t)
    \/ \E t \in BreakerThreads : SuccessCount(t)
    \/ \E t \in BreakerThreads : SuccessTime(t)
    \/ \E t \in BreakerThreads : CheckTest(t)
    \/ \E t \in BreakerThreads : CheckElapsed(t)
    \/ \E t \in BreakerThreads : CheckTime(t)
    \/ \E t \in BreakerThreads : CheckCount(t)

SpecBreaker == BreakerInit /\ [][BreakerNext]_vars

\* ------------------------------------------------- concurrent fetches
ConcInit ==
    /\ ClientInit
    /\ SideInit

ConcRest == <<client, limiter, pool, race, batch, breaker, listing, eta, cache, op>>

\* How many fetches can run at once: the executor starts at most max_workers
\* threads; the connector hands out at most limit connections, and at most
\* limit_per_host to one host (all match pages are on one host).
Capacity(k) ==
    IF k = "sync" THEN MAX_WORKERS ELSE Min(CONNECTOR_LIMIT, CONNECTOR_LIMIT_PER_HOST)
\* Whether one more fetch can begin.
MayBeginAlways(k, active) == TRUE
MayBegin(k, active) == active < Capacity(k)

\* The batch processor is called on n links: process_matches submits a
\* process_match per link to the executor, process_matches_async creates a
\* coroutine per link and gathers them.
ConcStart(k, n) ==
    /\ conc.pc \in {"idle", "done"}
    /\ conc' = [IdleConc EXCEPT !.pc = "running", !.k = k, !.total = n,
                                !.waiting = n]
    /\ UNCHANGED ConcRest

\* sync: a worker thread (a new one, or one that has finished its item)
\* takes a work item; async: session.get of a coroutine gets a connection.
ConcBegin ==
    /\ conc.pc = "running" /\ conc.waiting > 0
    /\ MayBegin(conc.k, conc.active)
    /\ conc' = [conc EXCEPT !.waiting = @ - 1, !.active = @ + 1]
    /\ UNCHANGED ConcRest

\* A fetch ends: the worker is free, the connection is released.
ConcEnd ==
    /\ conc.pc = "running" /\ conc.active > 0
    /\ conc' = [conc EXCEPT !.active = @ - 1, !.finished = @ + 1]
    /\ UNCHANGED ConcRest

\* All futures are done, gather has returned.
ConcReturn ==
    /\ conc.pc = "running" /\ conc.finished = conc.total
    /\ conc' = [conc EXCEPT !.pc = "done"]
    /\ UNCHANGED ConcRest

ConcNext ==
    \/ \E k \in Kinds, n \in 1 .. MaxConcLinks : ConcStart(k, n)
    \/ ConcBegin
    \/ ConcEnd
    \/ ConcReturn

SpecConc == ConcInit /\ [][ConcNext]_vars

\* ------------------------------------------------------------ the cache
\* Position of key in the memory tier, 0 when absent.
MemoryIndex(mem, key) ==
    IF \E i \in 1 .. Len(mem) : mem[i].key = key
    THEN CHOOSE i \in 1 .. Len(mem) : mem[i].key = key
    ELSE 0

\* The sequence without its i-th element (del, pop, move_to_end).
RemoveAt(seq, i) == [j \in 1 .. Len(seq) - 1 |-> IF j < i THEN seq[j] ELSE seq[j + 1]]

\* _memory_get: the data, or None when the key is absent or its entry has
\* expired (the entry is then deleted); a hit moves the entry to the end.
MemoryGet(mem, key, t) ==
    LET i == MemoryIndex(mem, key)
    IN  IF i = 0 THEN [memory |-> mem, data |-> NoData]
        ELSE IF t - mem[i].timestamp > TtlSeconds
             THEN [memory |-> RemoveAt(mem, i), data |-> NoData]
             ELSE [memory |-> Append(RemoveAt(mem, i), mem[i]), data |-> mem[i].data]

\* The while loop of _memory_set: entries are popped from the front until
\* fewer than memory_size are left.
RECURSIVE PopToCapacity(_, _)
PopToCapacity(mem, size) ==
    IF Len(mem) >= size /\ Len(mem) > 0
    THEN PopToCapacity(Tail(mem), size)
    ELSE mem

\* _memory_set: room is made, then the entry is stored with the current time:
\* a key still present keeps its place in the order, a new one goes to the end.
MemorySet(mem, key, data, t, size) ==
    LET m == PopToCapacity(mem, size)
        i == MemoryIndex(m, key)
        e == [key |-> key, timestamp |-> t, data |-> data]
    IN  IF i = 0 THEN Append(m, e) ELSE [m EXCEPT ![i] = e]

\* _memory_delete
MemoryDelete(mem, key) ==
    LET i == MemoryIndex(mem, key)
    IN  IF i = 0 THEN mem ELSE RemoveAt(mem, i)

\* cache_path.exists()
FileExists(c, url) == c.dir /\ c.files[url] # NoFile

\* MatchCache.get at time t: the cache after the call and what it returns.
\* raised names the exception that leaves the call, "none" when it returns.
CacheGet(c, url, t) ==
    IF ~c.enabled THEN [cache |-> c, result |-> NoData, raised |-> "none"]
    ELSE LET key == GetCacheKey(url)
             m == MemoryGet(c.memory, key, t)
             c1 == [c EXCEPT !.memory = m.memory]
             file == c1.files[url]
             unlinked == [cache |-> [c1 EXCEPT !.files[url] = NoFile],
                          result |-> NoData, raised |-> "none"]
             Failed(e) == IF e \in Caught THEN unlinked
                          ELSE [cache |-> c1, result |-> NoData, raised |-> e]
         IN  IF m.data # NoData
             THEN [cache |-> c1, result |-> m.data, raised |-> "none"]
             ELSE IF ~FileExists(c1, url)
             THEN [cache |-> c1, result |-> NoData, raised |-> "none"]
             ELSE IF LoadError(file) # "none" THEN Failed(LoadError(file))
             ELSE IF SubscriptError(file, "timestamp") # "none"
             THEN Failed(SubscriptError(file, "timestamp"))
             ELSE IF t - file.timestamp > TtlSeconds THEN unlinked
             ELSE IF SubscriptError(file, "data") # "none"
             THEN Failed(SubscriptError(file, "data"))
             ELSE LET data == JsonLoad(file.text)
                  IN  [cache |-> [c1 EXCEPT !.memory =
                                     MemorySet(c1.memory, key, data, t,
                                               MemorySize)],
                       result |-> data, raised |-> "none"]

CacheSetMemoryOnly(c, url, data, t) ==
    IF ~c.enabled THEN c
    ELSE [c EXCEPT !.memory = MemorySet(c.memory, GetCacheKey(url), data, t,
                                        MemorySize)]

\* MatchCache.set at time t.
CacheSet(c, url, data, t) ==
    IF ~c.enabled THEN c
    ELSE [c EXCEPT !.memory = MemorySet(c.memory, GetCacheKey(url), data, t,
                                        MemorySize),
                   !.files[url] = [timestamp |-> t, text |-> JsonDump(data)]]

\* MatchCache.invalidate: True when the file existed and was removed.
CacheInvalidate(c, url) ==
    IF ~c.enabled THEN [cache |-> c, result |-> FALSE]
    ELSE LET c1 == [c EXCEPT !.memory = MemoryDelete(c.memory, GetCacheKey(url))]
         IN  IF FileExists(c1, url)
             THEN [cache |-> [c1 EXCEPT !.files[url] = NoFile], result |-> TRUE]
             ELSE [cache |-> c1, result |-> FALSE]

\* MatchCache.clear: the number of memory entries when there is no
\* directory, of files removed otherwise.
CacheClear(c) ==
    LET c1 == [c EXCEPT !.memory = <<>>]
    IN  IF ~c.dir THEN [cache |-> c1, result |-> Len(c.memory)]
        ELSE [cache |-> [c1 EXCEPT !.files = [u \in Urls |-> NoFile]],
              result |-> Cardinality({u \in Urls : c.files[u] # NoFile})]

\* The orders in which cache_dir.glob("*.json") may list the files.
GlobOrders == {o \in [1 .. Cardinality(Urls) -> Urls] : \A u \in Urls : \E i \in DOMAIN o : o[i] = u}

\* The loop of clear_expired over the files still to visit: a file that is
\* expired, or whose reading raises an exception of the except clause, is
\* unlinked and counted; any other exception ends the call.
RECURSIVE ClearExpiredLoop(_, _, _, _)
ClearExpiredLoop(c, t, todo, count) ==
    IF todo = <<>> THEN [cache |-> c, result |-> count, raised |-> "none"]
    ELSE LET u == Head(todo)
             file == c.files[u]
             unlinked == [c EXCEPT !.files[u] = NoFile]
             e == IF LoadError(file) # "none" THEN LoadError(file)
                  ELSE SubscriptError(file, "timestamp")
         IN  IF file = NoFile THEN ClearExpiredLoop(c, t, Tail(todo), count)
             ELSE IF e \in Caught THEN ClearExpiredLoop(unlinked, t, Tail(todo), count + 1)
             ELSE IF e # "none" THEN [cache |-> c, result |-> 0, raised |-> e]
             ELSE IF t - file.timestamp > TtlSeconds
             THEN ClearExpiredLoop(unlinked, t, Tail(todo), count + 1)
             ELSE ClearExpiredLoop(c, t, Tail(todo), count)

\* MatchCache.clear_expired at time t, the directory listed in the given
\* order: the number of files removed.
CacheClearExpired(c, t, order) ==
    IF ~c.dir THEN [cache |-> c, result |-> 0, raised |-> "none"]
    ELSE ClearExpiredLoop(c, t, order, 0)

\* MatchCache.__init__ over the directory as it is: the memory tier starts
\* empty, the directory is created when the cache is enabled.
CacheConstruct(c, enabled) ==
    [c EXCEPT !.enabled = enabled, !.memory = <<>>, !.dir = c.dir \/ enabled]

\* An entry for url is held in the memory tier / in some tier.
InMemory(c, url) == MemoryIndex(c.memory, GetCacheKey(url)) # 0
Held(c, url) == InMemory(c, url) \/ FileExists(c, url)

\* The record of a call made at the current time.
Called(name, url, data, flag, count, c) ==
    [op EXCEPT !.name = name, !.url = url, !.time = now,
               !.data = data, !.flag = flag, !.count = count,
               !.had = IF url \in Urls THEN Held(cache, url) ELSE FALSE,
               !.found = IF url \in Urls
                         THEN CacheGet(cache, url, now).result ELSE NoData,
               !.changed = c.memory # cache.memory \/ c.files # cache.files
                           \/ c.dir # cache.dir,
               !.alt = ~op.alt, !.raised = "none"]

\* The direct use of one cache directory by successive MatchCache objects.
CacheInit ==
    /\ ClientInit
    /\ limiter = IdleLimiter
    /\ pool = IdlePool
    /\ race = IdleRace
    /\ batch = IdleBatch
    /\ conc = IdleConc
    /\ breaker = IdleBreaker
    /\ listing = IdleListing
    /\ eta = IdleEta
    /\ \E e \in BOOLEAN : cache = CacheConstruct(EmptyCache, e)
    /\ op = NoOp

Rest == <<kind, retries, failure_count, circuit_open_time, task, streak,
          backoff, equiv, limiter, pool, race, batch, conc, breaker, listing, eta>>

CacheTick ==
    /\ now < MaxCacheTime
    /\ now' = now + 1
    /\ UNCHANGED <<Rest, cache, op>>

Get(url) ==
    /\ LET r == CacheGet(cache, url, now)
       IN  /\ cache' = r.cache
           /\ op' = [Called("get", url, r.result, FALSE, 0, r.cache) EXCEPT
                        !.raised = r.raised]
    /\ UNCHANGED <<Rest, now>>

Set(url, data) ==
    /\ LET c == CacheSet(cache, url, data, now)
       IN  /\ cache' = c
           /\ op' = [Called("set", url, NoData, FALSE, 0, c) EXCEPT
                        !.written[url] =
                            IF cache.enabled
                            THEN [time |-> now, data |-> data, kept |-> TRUE]
                            ELSE @]
    /\ UNCHANGED <<Rest, now>>

Invalidate(url) ==
    /\ LET r == CacheInvalidate(cache, url)
       IN  /\ cache' = r.cache
           /\ op' = [Called("invalidate", url, NoData, r.result, 0, r.cache) EXCEPT
                        !.written[url].kept = @ /\ ~cache.enabled]
    /\ UNCHANGED <<Rest, now>>

Clear ==
    /\ LET r == CacheClear(cache)
       IN  /\ cache' = r.cache
           /\ op' = [Called("clear", "none", NoData, FALSE, r.result, r.cache) EXCEPT
                        !.written = [u \in Urls |-> [op.written[u] EXCEPT !.kept = FALSE]]]
    /\ UNCHANGED <<Rest, now>>

ClearExpired ==
    /\ \E order \in GlobOrders :
         LET r == CacheClearExpired(cache, now, order)
         IN  /\ cache' = r.cache
             /\ op' = [Called("clear_expired", "none", NoData, FALSE, r.result,
                              r.cache) EXCEPT !.raised = r.raised]
    /\ UNCHANGED <<Rest, now>>

\* A new MatchCache object (a new client, a new run of the program) over the
\* same directory.
Construct(enabled) ==
    /\ LET c == CacheConstruct(cache, enabled)
       IN  /\ cache' = c
           /\ op' = Called("construct", "none", NoData, FALSE, 0, c)
    /\ UNCHANGED <<Rest, now>>

CacheNext ==
    \/ CacheTick
    \/ \E url \in Urls : Get(url)
    \/ \E url \in Urls, score \in Scores : Set(url, Completed(score))
    \/ \E url \in Urls : Invalidate(url)
    \/ Clear
    \/ ClearExpired
    \/ \E e \in BOOLEAN : Construct(e)

SpecCache == CacheInit /\ [][CacheNext]_vars

\* The cache over a directory in which files are damaged or replaced from
\* outside the program.
CorruptInit ==
    /\ ClientInit
    /\ limiter = IdleLimiter
    /\ pool = IdlePool
    /\ race = IdleRace
    /\ batch = IdleBatch
    /\ conc = IdleConc
    /\ breaker = IdleBreaker
    /\ listing = IdleListing
    /\ eta = IdleEta
    /\ cache = CacheConstruct(EmptyCache, TRUE)
    /\ op = NoOp

\* The file of url is overwritten by something MatchCache.set did not write.
Corrupt(url, k) ==
    /\ cache.dir
    /\ LET c == [cache EXCEPT !.files[url] = CorruptFile(k, now)]
       IN  /\ cache' = c
           /\ op' = [Called("corrupt", url, NoData, FALSE, 0, c) EXCEPT
                        !.written[url].kept = FALSE]
    /\ UNCHANGED <<Rest, now>>

\* Time passes, up to the first moment at which an entry written at 0 is
\* expired.
CorruptTick ==
    /\ now <= TtlSeconds
    /\ now' = now + 1
    /\ UNCHANGED <<Rest, cache, op>>

CorruptNext ==
    \/ CorruptTick
    \/ \E url \in Urls : Get(url)
    \/ \E url \in Urls : Set(url, Completed("2:0"))
    \/ ClearExpired
    \/ \E url \in Urls, k \in CorruptKinds : Corrupt(url, k)

SpecCorrupt == CorruptInit /\ [][CorruptNext]_vars

\* ------------------------------------------- the cache shared by threads
\* get, set and invalidate of one URL run by several threads on one enabled
\* MatchCache, a step for each access to the memory tier (made under
\* _memory_lock) and for each system call on the directory.  The cache starts
\* empty, with the entry of an earlier set, or as a new MatchCache over the
\* file of an earlier one; the calls overlap within one reading of the clock,
\* so that no entry expires between their steps.
RaceInit ==
    /\ ClientInit
    /\ limiter = IdleLimiter
    /\ pool = IdlePool
    /\ batch = IdleBatch
    /\ conc = IdleConc
    /\ breaker = IdleBreaker
    /\ listing = IdleListing
    /\ eta = IdleEta
    /\ op = NoOp
    /\ \E held \in {"nothing", "both tiers", "file"} :
        LET c == CacheConstruct(EmptyCache, TRUE)
            data == Completed("2:0")
            set == CacheSet(c, RaceUrl, data, 0)
            r == [IdleRace EXCEPT !.entries = {[timestamp |-> 0, text |-> JsonDump(data)]}]
        IN  /\ cache = CASE held = "nothing" -> c
                         [] held = "both tiers" -> set
                         [] held = "file" -> CacheConstruct(set, TRUE)
            /\ race = [(IF held = "nothing" THEN IdleRace ELSE r) EXCEPT !.start = cache]

RaceRest == <<kind, retries, failure_count, circuit_open_time, task, streak,
              backoff, equiv, limiter, pool, batch, conc, breaker, listing, eta, op>>

RaceKey == GetCacheKey(RaceUrl)

\* The thread moves to pc with the given changes to its result.
Goto(t, pc) == [race EXCEPT !.pc[t] = pc]
Done(t, ret) == [race EXCEPT !.pc[t] = "done", !.ret[t] = ret]

\* A thread calls set, get or invalidate.
CallSet(t, data) ==
    /\ race.pc[t] = "idle" /\ race.calls < MaxRaceCalls
    /\ race' = [race EXCEPT !.pc[t] = "set_memory", !.arg[t] = data,
                            !.calls = @ + 1,
                            !.log = Append(@, [name |-> "set", data |-> data])]
    /\ UNCHANGED <<RaceRest, now, cache>>

CallGet(t) ==
    /\ race.pc[t] = "idle" /\ race.calls < MaxRaceCalls
    /\ race' = [race EXCEPT !.pc[t] = "get_memory", !.calls = @ + 1,
                            !.log = Append(@, [name |-> "get", data |-> NoData])]
    /\ UNCHANGED <<RaceRest, now, cache>>

CallInvalidate(t) ==
    /\ race.pc[t] = "idle" /\ race.calls < MaxRaceCalls
    /\ race' = [race EXCEPT !.pc[t] = "invalidate_memory", !.calls = @ + 1,
                            !.log = Append(@, [name |-> "invalidate", data |-> NoData])]
    /\ UNCHANGED <<RaceRest, now, cache>>

\* set: self._memory_set(key, data)
SetMemory(t) ==
    /\ race.pc[t] = "set_memory"
    /\ cache' = [cache EXCEPT !.memory =
                    MemorySet(cache.memory, RaceKey, race.arg[t], now, MemorySize)]
    /\ race' = Goto(t, "set_mkstemp")
    /\ UNCHANGED <<RaceRest, now>>

\* set: the entry gets its timestamp and tempfile.mkstemp creates an empty
\* file of a fresh name in the cache directory.
SetMkstemp(t) ==
    /\ race.pc[t] = "set_mkstemp"
    /\ race' = [race EXCEPT !.pc[t] = "set_dump",
                            !.tmp[t] = [made |-> TRUE, timestamp |-> now, text |-> <<>>],
                            !.chunks[t] = 0,
                            !.entries = @ \cup {[timestamp |-> now,
                                                 text |-> JsonDump(race.arg[t])]}]
    /\ UNCHANGED <<RaceRest, now, cache>>

\* Where json.dump writes: the temporary file.
DumpInPlace(files, tmp, text) ==
    [files |-> [files EXCEPT ![RaceUrl] = [timestamp |-> tmp.timestamp, text |-> text]],
     tmp |-> tmp]
Dump(files, tmp, text) ==
    [files |-> files, tmp |-> [tmp EXCEPT !.text = text]]

\* set: json.dump writes the entry, the opening of the object first and the
\* rest after it.
SetDump(t) ==
    /\ race.pc[t] = "set_dump"
    /\ LET text == IF race.chunks[t] = 0 THEN <<"{">> ELSE JsonDump(race.arg[t])
           w == Dump(cache.files, race.tmp[t], text)
       IN  /\ cache' = [cache EXCEPT !.files = w.files]
           /\ race' = [race EXCEPT !.tmp[t] = w.tmp, !.chunks[t] = @ + 1,
                                   !.pc[t] = IF race.chunks[t] = 0 THEN "set_dump"
                                             ELSE "set_replace"]
    /\ UNCHANGED <<RaceRest, now>>

\* set: Path(tmp_path).replace(cache_path) puts the temporary file in the
\* place of the destination in one step.
SetReplace(t) ==
    /\ race.pc[t] = "set_replace"
    /\ cache' = [cache EXCEPT !.files[RaceUrl] =
                    [timestamp |-> race.tmp[t].timestamp, text |-> race.tmp[t].text]]
    /\ race' = [Done(t, NoRet) EXCEPT !.tmp[t] = NoTmp]
    /\ UNCHANGED <<RaceRest, now>>

\* set: mkstemp, json.dump or replace raises (OSError), or the thread is
\* interrupted in json.dump or replace (KeyboardInterrupt): the temporary
\* file, if made, is unlinked; OSError is logged, anything else propagates.
SetFail(t, e) ==
    /\ race.pc[t] \in {"set_mkstemp", "set_dump", "set_replace"}
    /\ race.pc[t] = "set_mkstemp" => e = "OSError"
    /\ race' = [Done(t, [NoRet EXCEPT !.failed = TRUE,
                                       !.raised = IF e = "OSError" THEN "none" ELSE e])
                    EXCEPT !.tmp[t] = NoTmp, !.failed = TRUE]
    /\ UNCHANGED <<RaceRest, now, cache>>

\* get: self._memory_get(key)
GetMemory(t) ==
    /\ race.pc[t] = "get_memory"
    /\ LET m == MemoryGet(cache.memory, RaceKey, now)
       IN  /\ cache' = [cache EXCEPT !.memory = m.memory]
           /\ race' = IF m.data # NoData
                      THEN Done(t, [NoRet EXCEPT !.data = m.data])
                      ELSE Goto(t, "get_exists")
    /\ UNCHANGED <<RaceRest, now>>

\* get: cache_path.exists()
GetExists(t) ==
    /\ race.pc[t] = "get_exists"
    /\ race' = IF FileExists(cache, RaceUrl) THEN Goto(t, "get_load") ELSE Done(t, NoRet)
    /\ UNCHANGED <<RaceRest, now, cache>>

\* get: open and json.load read the file as it is at this moment, and the
\* timestamp is compared: a file that is gone raises FileNotFoundError.
GetLoad(t) ==
    /\ race.pc[t] = "get_load"
    /\ LET file == cache.files[RaceUrl]
           e == IF file = NoFile THEN "OSError"
                ELSE IF LoadError(file) # "none" THEN LoadError(file)
                ELSE IF SubscriptError(file, "timestamp") # "none"
                THEN SubscriptError(file, "timestamp")
                ELSE IF now - file.timestamp > TtlSeconds THEN "expired"
                ELSE SubscriptError(file, "data")
           r == [race EXCEPT !.loaded[t] = file]
       IN  race' = IF e = "none" THEN [r EXCEPT !.pc[t] = "get_promote"]
                   ELSE IF e \in Caught \cup {"expired"}
                   THEN [r EXCEPT !.pc[t] = "get_unlink"]
                   ELSE [r EXCEPT !.pc[t] = "done",
                                  !.ret[t] = [NoRet EXCEPT !.raised = e]]
    /\ UNCHANGED <<RaceRest, now, cache>>

\* get: cache_path.unlink(missing_ok=True) of the expired or unusable file
GetUnlink(t) ==
    /\ race.pc[t] = "get_unlink"
    /\ cache' = [cache EXCEPT !.files[RaceUrl] = NoFile]
    /\ race' = Done(t, NoRet)
    /\ UNCHANGED <<RaceRest, now>>

\* get: self._memory_set(key, cached["data"])
GetPromote(t) ==
    /\ race.pc[t] = "get_promote"
    /\ LET data == JsonLoad(race.loaded[t].text)
       IN  /\ cache' = [cache EXCEPT !.memory =
                           MemorySet(cache.memory, RaceKey, data, now, MemorySize)]
           /\ race' = Done(t, [NoRet EXCEPT !.data = data])
    /\ UNCHANGED <<RaceRest, now>>

\* invalidate: self._memory_delete(key)
InvalidateMemory(t) ==
    /\ race.pc[t] = "invalidate_memory"
    /\ cache' = [cache EXCEPT !.memory = MemoryDelete(cache.memory, RaceKey)]
    /\ race' = Goto(t, "invalidate_exists")
    /\ UNCHANGED <<RaceRest, now>>

\* invalidate: cache_path.exists()
InvalidateExists(t) ==
    /\ race.pc[t] = "invalidate_exists"
    /\ race' = IF FileExists(cache, RaceUrl) THEN Goto(t, "invalidate_unlink")
               ELSE Done(t, NoRet)
    /\ UNCHANGED <<RaceRest, now, cache>>

\* invalidate: cache_path.unlink(); a file that is gone raises
\* FileNotFoundError, which is logged.
InvalidateUnlink(t) ==
    /\ race.pc[t] = "invalidate_unlink"
    /\ cache' = [cache EXCEPT !.files[RaceUrl] = NoFile]
    /\ race' = Done(t, [NoRet EXCEPT !.flag = FileExists(cache, RaceUrl)])
    /\ UNCHANGED <<RaceRest, now>>

\* The call returns to the thread.
RaceReturn(t) ==
    /\ race.pc[t] = "done"
    /\ race' = [race EXCEPT !.pc[t] = "idle", !.arg[t] = NoData,
                            !.loaded[t] = NoFile, !.ret[t] = NoRet,
                            !.chunks[t] = 0]
    /\ UNCHANGED <<RaceRest, now, cache>>

RaceNext ==
    \/ \E t \in RaceThreads, score \in Scores : CallSet(t, Completed(score))
    \/ \E t \in RaceThreads : CallGet(t)
    \/ \E t \in RaceThreads : CallInvalidate(t)
    \/ \E t \in RaceThreads : SetMemory(t)
    \/ \E t \in RaceThreads : SetMkstemp(t)
    \/ \E t \in RaceThreads : SetDump(t)
    \/ \E t \in RaceThreads : SetReplace(t)
    \/ \E t \in RaceThreads, e \in {"OSError", "KeyboardInterrupt"} : SetFail(t, e)
    \/ \E t \in RaceThreads : GetMemory(t)
    \/ \E t \in RaceThreads : GetExists(t)
    \/ \E t \in RaceThreads : GetLoad(t)
    \/ \E t \in RaceThreads : GetUnlink(t)
    \/ \E t \in RaceThreads : GetPromote(t)
    \/ \E t \in RaceThreads : InvalidateMemory(t)
    \/ \E t \in RaceThreads : InvalidateExists(t)
    \/ \E t \in RaceThreads : InvalidateUnlink(t)
    \/ \E t \in RaceThreads : RaceReturn(t)

SpecRace == RaceInit /\ [][RaceNext]_vars

\* The same calls on a new MatchCache over the directory of an earlier one,
\* where the file of the URL is unusable (cut short) or was written more than
\* the TTL ago: get reads it, fails or sees it expired, and unlinks the path.
StaleKinds == {"bad_json", "expired"}
StaleInit ==
    /\ kind = "sync"
    /\ retries = MAX_RETRIES
    /\ now = TtlSeconds + 1
    /\ failure_count = 0
    /\ circuit_open_time = NoTime
    /\ task = [t \in Tasks |-> IdleTask]
    /\ streak = 0
    /\ backoff = NoBackoff
    /\ equiv = NoEquiv
    /\ limiter = IdleLimiter
    /\ pool = IdlePool
    /\ batch = IdleBatch
    /\ conc = IdleConc
    /\ breaker = IdleBreaker
    /\ listing = IdleListing
    /\ eta = IdleEta
    /\ op = NoOp
    /\ \E held \in StaleKinds :
        LET c == CacheConstruct(EmptyCache, TRUE)
            file == IF held = "expired"
                    THEN [timestamp |-> 0, text |-> JsonDump(Completed("2:0"))]
                    ELSE CorruptFile(held, 0)
        IN  /\ cache = [c EXCEPT !.files[RaceUrl] = file]
            /\ race = [IdleRace EXCEPT !.start = cache]

SpecStale == StaleInit /\ [][RaceNext]_vars

\* ------------------------------------------------------------ process_match
\* What the server answers the (up to MAX_RETRIES) attempts of one match
\* request with: success at once or after a connection error, a 404 first, or
\* connection errors throughout.
Ok == [type |-> "response", status |-> 200]
NotFound == [type |-> "response", status |-> 404]
ConnError == [type |-> "conn_error", status |-> 0]
MatchRuns ==
    {[i \in 1 .. MAX_RETRIES |-> Ok],
     [i \in 1 .. MAX_RETRIES |-> IF i = 1 THEN ConnError ELSE Ok],
     [i \in 1 .. MAX_RETRIES |-> IF i = 1 THEN NotFound ELSE Ok],
     [i \in 1 .. MAX_RETRIES |-> ConnError]}

\* The match links process_match is called on.
MatchUrls == {"u1"}

\* The match pages: what extraction finds, and the score text (two results
\* for a finished match).
MatchPages ==
    {p \in [kind : Pages, score : Scores] :
        p.kind # "completed" => p.score = "2:0"}

\* The Match built from a page.
MatchOf(page) ==
    [score |-> page.score, is_live |-> page.kind = "live",
     is_upcoming |-> page.kind = "upcoming"]

\* Whether process_match reads the cache first.
UseCacheNever(upcoming_only, enabled) == FALSE

UseCache(upcoming_only, enabled) == ~upcoming_only /\ enabled

\* What process_match does to the cache with the match it built.
CachePolicySetsAll(enabled, match) ==
    IF enabled THEN "set" ELSE "none"

CachePolicyNeverInvalidates(enabled, match) ==
    IF enabled /\ ~match.is_live /\ ~match.is_upcoming THEN "set" ELSE "none"

CachePolicy(enabled, match) ==
    IF enabled /\ ~match.is_live /\ ~match.is_upcoming THEN "set"
    ELSE IF enabled THEN "invalidate"
    ELSE "none"

\* process_match(link, upcoming_only) of a client of class k at time t, with
\* cache c and breaker (fc, ot), the server answering the attempts with outs
\* and, on success, with page: what is returned (NoData for None), the cache
\* and breaker left, and what was done on the way.
ProcessMatch(k, c, fc, ot, t, url, upcoming_only, outs, page) ==
    LET use == UseCache(upcoming_only, c.enabled)
        g == IF use THEN CacheGet(c, url, t) ELSE [cache |-> c, result |-> NoData]
        hit == use /\ g.result # NoData
                   /\ ~g.result.is_live /\ ~g.result.is_upcoming
        r == MakeRequest(k, outs, MAX_RETRIES, fc, ot, t)
        match == MatchOf(page)
        out == [cache |-> g.cache, result |-> NoData, consulted |-> use,
                http |-> r.attempts,
                acquires |-> IF k = "async" THEN r.attempts ELSE 0,
                fetched |-> "none",
                failure_count |-> r.failure_count,
                circuit_open_time |-> r.circuit_open_time]
    IN  IF hit
        THEN [out EXCEPT !.result = g.result, !.http = 0, !.acquires = 0,
                         !.failure_count = fc, !.circuit_open_time = ot]
        ELSE IF r.soup = "None" THEN out
        ELSE IF ProcessPage(page.kind, upcoming_only) = "None"
             THEN [out EXCEPT !.fetched = page.kind]
        ELSE LET todo == CachePolicy(c.enabled, match)
             IN  [out EXCEPT
                    !.fetched = page.kind,
                    !.result = match,
                    !.cache = CASE todo = "set" -> CacheSet(g.cache, url, match, t)
                                [] todo = "invalidate" ->
                                        CacheInvalidate(g.cache, url).cache
                                [] OTHER -> g.cache]

\* A client just constructed (its MatchCache over the directory as it is).
MatchInit ==
    /\ kind \in Kinds
    /\ retries = MAX_RETRIES
    /\ now = 0
    /\ failure_count = 0
    /\ circuit_open_time = NoTime
    /\ task = [t \in Tasks |-> IdleTask]
    /\ streak = 0
    /\ backoff = NoBackoff
    /\ equiv = NoEquiv
    /\ limiter = IdleLimiter
    /\ pool = IdlePool
    /\ race = IdleRace
    /\ batch = IdleBatch
    /\ conc = IdleConc
    /\ breaker = IdleBreaker
    /\ listing = IdleListing
    /\ eta = IdleEta
    /\ \E e \in BOOLEAN : cache = CacheConstruct(EmptyCache, e)
    /\ op = NoOp

Others == <<retries, task, backoff, equiv, limiter, pool, race, batch, conc, breaker, listing, eta>>

MatchTick ==
    /\ now < MaxCacheTime
    /\ now' = now + 1
    /\ UNCHANGED <<Others, kind, failure_count, circuit_open_time, streak, cache, op>>

\* One call of process_match, run to its end.
CallProcessMatch(url, upcoming_only, outs, page) ==
    /\ failure_count < MaxFailures
    /\ \E r \in {ProcessMatch(kind, cache, failure_count, circuit_open_time, now,
                               url, upcoming_only, outs, page)} :
           /\ cache' = r.cache
           /\ failure_count' = r.failure_count
           /\ circuit_open_time' = r.circuit_open_time
           /\ streak' = r.failure_count
           /\ op' = [Called("process_match", url, r.result, FALSE, 0, r.cache)
                        EXCEPT !.alt = FALSE, !.changed = FALSE,
                               !.upcoming_only = upcoming_only,
                               !.consulted = r.consulted,
                               !.http = r.http,
                               !.acquires = r.acquires,
                               !.fetched = r.fetched,
                               !.breaker = <<failure_count, circuit_open_time>>]
    /\ UNCHANGED <<Others, kind, now>>

\* The program is run again: a new client of either class, with the cache
\* enabled or not, over the same cache directory.
NewClient(k, enabled) ==
    /\ kind' = k
    /\ failure_count' = 0
    /\ circuit_open_time' = NoTime
    /\ streak' = 0
    /\ LET c == CacheConstruct(cache, enabled)
       IN  /\ cache' = c
           /\ op' = [Called("construct", "none", NoData, FALSE, 0, c)
                        EXCEPT !.alt = FALSE, !.changed = FALSE,
                               !.upcoming_only = FALSE, !.consulted = FALSE,
                               !.http = 0, !.acquires = 0, !.fetched = "none",
                               !.breaker = <<0, NoTime>>]
    /\ UNCHANGED <<Others, now>>

MatchNext ==
    \/ MatchTick
    \/ \E url \in MatchUrls, u \in BOOLEAN, outs \in MatchRuns, page \in MatchPages :
            CallProcessMatch(url, u, outs, page)
    \/ \E k \in Kinds, e \in BOOLEAN : NewClient(k, e)

SpecMatch == MatchInit /\ [][MatchNext]_vars

\* ------------------------------------------------------- batch processing
\* The classes derived from Exception among the exceptions raised.
ExceptionClasses ==
    {"RequestException", "CircuitBreakerOpen", "AttributeError", "TypeError",
     "IndexError", "KeyError", "ValueError", "RuntimeError"}

\* Whether the except clauses around the body of process_match catch e.
CatchesListedOnly(k, e) ==
    e \in {"RequestException", "AttributeError", "TypeError", "IndexError",
           "KeyError", "ValueError"}
Catches(k, e) ==
    IF k = "sync"
    THEN \/ e = "RequestException"
         \/ e \in {"AttributeError", "TypeError", "IndexError"}
         \/ e \in {"KeyError", "ValueError"}
         \/ e \in ExceptionClasses
    ELSE e \in ExceptionClasses

\* COUNTDOWN_PATTERN.match(score), the pattern being ^\d+[dhm]\s : one or more
\* digits, a unit letter and a whitespace character open the text.
DigitChars == {"0", "1", "2", "3", "4", "5", "6", "7", "8", "9"}
UnitChars == {"d", "h", "m"}
SpaceChars == {" "}
CountdownMatch(score) ==
    \E n \in 1 .. Len(score) - 2 :
        /\ \A i \in 1 .. n : score[i] \in DigitChars
        /\ score[n + 1] \in UnitChars
        /\ score[n + 2] \in SpaceChars

\* format_eta / _format_eta: "in <score>" for a countdown, else "UPCOMING".
FormatEta(score) ==
    IF CountdownMatch(score) THEN <<"in", " ">> \o score ELSE <<"UPCOMING">>

\* score.lower().startswith("match has not started"), texts taken by words.
StartsWith(text, prefix) ==
    /\ Len(text) >= Len(prefix)
    /\ SubSeq(text, 1, Len(prefix)) = prefix
NotStartedPrefix == <<"match", " ", "has", " ", "not", " ", "started">>
\* is_upcoming_match, and the same test written out in process_match.
IsUpcomingMatch(score) ==
    StartsWith(Lower(score), NotStartedPrefix) \/ CountdownMatch(score)

\* The score text each page shows.
NotStartedScore == <<"Match", " ", "has", " ", "not", " ", "started", " ", "yet.">>
CountdownScore == <<"1", "h", " ", "3", "0", "m">>
ResultScore == <<"2", " ", ":", " ", "1">>
ScoreOf(page) ==
    CASE page = "upcoming" -> NotStartedScore
      [] page = "countdown" -> CountdownScore
      [] OTHER -> ResultScore
\* The Match process_match builds from the page it fetched.
BuildMatch(page) ==
    [score |-> ScoreOf(page), is_live |-> page = "live",
     is_upcoming |-> IsUpcomingMatch(ScoreOf(page))]

\* _format_match_output of a client of class k: date and time, the teams and
\* the status (the line with the stats link and the separator line follow).
\* The sync client shows every upcoming match as UPCOMING, the async client
\* formats the score as an ETA.
OutputHead == <<"Dec 23  3:00 PM", " | ", "Team A vs Team B", " | ">>
FormatMatchOutput(k, match) ==
    OutputHead \o
        (IF match.is_live THEN <<"Score:", " ">> \o match.score \o <<" ", "LIVE">>
         ELSE IF match.is_upcoming
              THEN (IF k = "sync" THEN <<"UPCOMING">> ELSE FormatEta(match.score))
         ELSE <<"Score:", " ">> \o match.score)

\* Whether process_match returns None for the match built from a page:
\* upcoming_only skips a match that is neither upcoming nor live.
Skipped(match, upcoming_only) ==
    upcoming_only /\ ~match.is_upcoming /\ ~match.is_live

\* process_match of a client of class k when ev happens inside it: what it
\* returns (None or the output text) or raises.
ProcessMatchOutcome(k, ev, upcoming_only) ==
    IF ev \in FetchedPages
    THEN [result |-> IF ev = "tbd" \/ Skipped(BuildMatch(ev), upcoming_only)
                     THEN None
                     ELSE FormatMatchOutput(k, BuildMatch(ev)),
          raised |-> "none"]
    ELSE IF ev \in RequestErrors THEN [result |-> None, raised |-> "none"]
    ELSE IF Catches(k, ev) THEN [result |-> None, raised |-> "none"]
    ELSE [result |-> None, raised |-> ev]

\* "UPCOMING" in result.
Contains(text, piece) == \E n \in DOMAIN text : text[n] = piece

\* ----------------------------------------------- the ETA of a match
\* The score texts: every text of at most MaxScoreLen characters out of a
\* digit, a unit letter, a blank and another letter, and the texts of the
\* pages.
EtaChars == {"1", "h", " ", "x"}
EtaScores ==
    UNION {[1 .. n -> EtaChars] : n \in 0 .. MaxScoreLen}
        \cup {NotStartedScore, CountdownScore, ResultScore}

EtaInit ==
    /\ ClientInit
    /\ limiter = IdleLimiter
    /\ pool = IdlePool
    /\ race = IdleRace
    /\ batch = IdleBatch
    /\ conc = IdleConc
    /\ breaker = IdleBreaker
    /\ listing = IdleListing
    /\ \E score \in EtaScores : eta = [IdleEta EXCEPT !.pc = "given", !.score = score]
    /\ cache = EmptyCache
    /\ op = NoOp

\* An upcoming match with the score is formatted by both clients, and the
\* score by format_eta.
FormatUpcoming ==
    /\ eta.pc = "given"
    /\ LET match == [score |-> eta.score, is_live |-> FALSE, is_upcoming |-> TRUE]
       IN  eta' = [eta EXCEPT
                    !.pc = "formatted",
                    !.format_eta = FormatEta(eta.score),
                    !.sync = FormatMatchOutput("sync", match),
                    !.async = FormatMatchOutput("async", match)]
    /\ UNCHANGED <<client, limiter, pool, race, batch, conc, breaker, listing, cache, op>>

SpecEta == EtaInit /\ [][FormatUpcoming]_vars

\* Whether the collecting loop appends the item of a finished link.
Kept(out, view_mode) ==
    /\ out.raised = "none"
    /\ out.result # None
    /\ ~(view_mode = "results" /\ Contains(out.result, "UPCOMING"))

\* match_links.index(link): the first position of a link equal to it.
IndexOf(links, link) ==
    CHOOSE i \in 1 .. Len(links) :
        links[i] = link /\ \A j \in 1 .. i - 1 : links[j] # link

\* sorted(results, key=lambda x: match_links.index(x[0])): a stable sort.
RECURSIVE SortedFrom(_, _, _)
SortedFrom(results, links, i) ==
    IF i > Len(links) THEN <<>>
    ELSE SelectSeq(results, LAMBDA r : IndexOf(links, r[1]) = i)
            \o SortedFrom(results, links, i + 1)
Sorted(results, links) == SortedFrom(results, links, 1)

\* The loop over what asyncio.gather returned, from position i on.
RECURSIVE Gathered(_, _, _, _)
Gathered(links, out, view_mode, i) ==
    IF i > Len(links) THEN <<>>
    ELSE (IF Kept(out[i], view_mode) THEN <<<<links[i], out[i].result>>>> ELSE <<>>)
            \o Gathered(links, out, view_mode, i + 1)

BatchInit ==
    /\ ClientInit
    /\ limiter = IdleLimiter
    /\ pool = IdlePool
    /\ race = IdleRace
    /\ batch = IdleBatch
    /\ conc = IdleConc
    /\ breaker = IdleBreaker
    /\ listing = IdleListing
    /\ eta = IdleEta
    /\ cache = EmptyCache
    /\ op = NoOp

BatchRest == <<kind, retries, now, failure_count, circuit_open_time, task, streak,
               backoff, equiv, limiter, pool, race, conc, breaker, listing, eta,
               cache, op>>

\* process_matches (sync) or process_matches_async is called: one
\* process_match per link is submitted.  Only process_matches_async takes a
\* progress_callback.
BatchStart(k, links, view_mode, callback) ==
    /\ batch.pc = "idle"
    /\ callback => k = "async"
    /\ batch' = [IdleBatch EXCEPT
                    !.pc = "running", !.k = k, !.links = links,
                    !.view_mode = view_mode, !.callback = callback,
                    !.ev = [i \in 1 .. Len(links) |-> "pending"],
                    !.out = [i \in 1 .. Len(links) |-> NoOut]]
    /\ UNCHANGED BatchRest

\* The process_match of the link at position i ends, ev having happened
\* inside it; process_single then invokes the callback.  A coroutine can be
\* cancelled, a worker thread cannot.
TaskDone(i, ev) ==
    /\ batch.pc = "running"
    /\ i \in 1 .. Len(batch.links) /\ batch.ev[i] = "pending"
    /\ ev = "CancelledError" => batch.k = "async"
    /\ LET o == ProcessMatchOutcome(batch.k, ev, batch.view_mode = "upcoming")
       IN  batch' = [batch EXCEPT
                        !.ev[i] = ev,
                        !.out[i] = o,
                        !.calls = IF batch.callback /\ o.raised = "none"
                                  THEN @ + 1 ELSE @,
                        !.queue = IF batch.k = "sync" THEN Append(@, i) ELSE @]
    /\ UNCHANGED BatchRest

\* sync: as_completed yields the next finished future and the loop body runs:
\* an exception of the future that is an Exception is logged.
CollectOne ==
    /\ batch.pc = "running" /\ batch.k = "sync"
    /\ batch.queue # <<>>
    /\ LET i == Head(batch.queue)
           o == batch.out[i]
       IN  batch' = IF o.raised # "none" /\ o.raised \notin ExceptionClasses
                    THEN [batch EXCEPT !.pc = "returned", !.raised = o.raised]
                    ELSE [batch EXCEPT
                            !.queue = Tail(@),
                            !.results = IF Kept(o, batch.view_mode)
                                        THEN Append(@, <<batch.links[i], o.result>>)
                                        ELSE @]
    /\ UNCHANGED BatchRest

\* The pairs appended for all links, sorted, are returned: by
\* process_matches once every future was yielded, by process_matches_async
\* once asyncio.gather(return_exceptions=True) has returned.
BatchReturn ==
    /\ batch.pc = "running"
    /\ \A i \in 1 .. Len(batch.links) : batch.ev[i] # "pending"
    /\ batch.queue = <<>>
    /\ LET results == IF batch.k = "sync" THEN batch.results
                      ELSE Gathered(batch.links, batch.out, batch.view_mode, 1)
       IN  batch' = [batch EXCEPT !.pc = "returned", !.results = results,
                                  !.returned = Sorted(results, batch.links)]
    /\ UNCHANGED BatchRest

\* run_cli_mode (without team filter and export) on what the injected
\* process_matches_func returned: the result list and the number of links
\* whose teams were TBD.  The list is displayed and the tallies are reported.
TbdLinks == Cardinality({i \in 1 .. Len(batch.links) : batch.ev[i] = "tbd"})
RunCliMode(total, results, tbd_count) ==
    LET s1 == [NoStats EXCEPT !.total = total, !.tbd_count = tbd_count]
        s2 == IF results = <<>> THEN s1 ELSE [s1 EXCEPT !.displayed = Len(results)]
    IN  IF s2.failed = 0
        THEN [s2 EXCEPT !.failed = s2.total - Len(results) - s2.tbd_count]
        ELSE s2
Tally ==
    /\ batch.pc = "returned" /\ batch.raised = "none"
    /\ batch' = [batch EXCEPT
                    !.pc = "tallied",
                    !.stats = RunCliMode(Len(batch.links), batch.returned, TbdLinks)]
    /\ UNCHANGED BatchRest

BatchNext ==
    \/ \E k \in Kinds, links \in BatchInputs, v \in ViewModes, cb \in BOOLEAN :
            BatchStart(k, links, v, cb)
    \/ \E i \in 1 .. MaxLinks, ev \in FetchEvents : TaskDone(i, ev)
    \/ CollectOne
    \/ BatchReturn
    \/ Tally

SpecBatch == BatchInit /\ [][BatchNext]_vars

\* The same over the lists of at most MaxShort links.
ShortNext ==
    \/ \E k \in Kinds, links \in ShortInputs, v \in ViewModes, cb \in BOOLEAN :
            BatchStart(k, links, v, cb)
    \/ \E i \in 1 .. MaxShort, ev \in FetchEvents : TaskDone(i, ev)
    \/ CollectOne
    \/ BatchReturn
    \/ Tally

SpecShort == BatchInit /\ [][ShortNext]_vars

\* ------------------------------------------------------------ the memory tier
\* The URLs whose keys are put in the memory tier.
LruUrls == {"u1", "u2", "u3", "u4"}

\* The sequence without the elements equal to x.
Without(seq, x) == SelectSeq(seq, LAMBDA y : y # x)

\* The keys held in a memory tier.
KeysOf(mem) == {mem[i].key : i \in 1 .. Len(mem)}

LruInit ==
    /\ ClientInit
    /\ limiter = IdleLimiter
    /\ pool = IdlePool
    /\ race = IdleRace
    /\ batch = IdleBatch
    /\ conc = IdleConc
    /\ breaker = IdleBreaker
    /\ listing = IdleListing
    /\ eta = IdleEta
    /\ cache = CacheConstruct(EmptyCache, TRUE)
    /\ op = NoOp

LruTick ==
    /\ now < MaxCacheTime
    /\ now' = now + 1
    /\ UNCHANGED <<Rest, cache, op>>

\* _memory_get(key), as called by get.
MemGet(url) ==
    /\ LET key == GetCacheKey(url)
           r == MemoryGet(cache.memory, key, now)
       IN  /\ cache' = [cache EXCEPT !.memory = r.memory]
           /\ op' = [op EXCEPT !.name = "_memory_get", !.url = url, !.time = now,
                        !.data = r.data, !.alt = ~op.alt,
                        !.full = FALSE, !.lru = <<>>, !.removed = {},
                        !.order = IF r.data # NoData
                                  THEN Append(Without(op.order, key), key)
                                  ELSE Without(op.order, key)]
    /\ UNCHANGED <<Rest, now>>

\* _memory_set(key, data), as called by set and by get when it promotes an
\* entry read from its file.
MemSet(url, data) ==
    /\ LET key == GetCacheKey(url)
           m == MemorySet(cache.memory, key, data, now, LruSize)
           popped == Len(cache.memory) - Len(PopToCapacity(cache.memory, LruSize))
           removed == {cache.memory[i].key : i \in 1 .. popped}
           left == SelectSeq(op.order, LAMBDA y : y \in KeysOf(m) /\ y # key)
       IN  /\ cache' = [cache EXCEPT !.memory = m]
           /\ op' = [op EXCEPT !.name = "_memory_set", !.url = url, !.time = now,
                        !.data = NoData, !.alt = ~op.alt,
                        !.full = Len(cache.memory) >= LruSize,
                        !.lru = IF op.order = <<>> THEN <<>> ELSE Head(op.order),
                        !.removed = removed,
                        !.order = Append(left, key)]
    /\ UNCHANGED <<Rest, now>>

LruNext ==
    \/ LruTick
    \/ \E url \in LruUrls : MemGet(url)
    \/ \E url \in LruUrls : MemSet(url, Completed("2:0"))

SpecLru == LruInit /\ [][LruNext]_vars

\* ------------------------------------------------------------ properties
Open == circuit_open_time # NoTime
Elapsed == now - circuit_open_time

\* A step in which caller t enters _make_request (and the breaker is checked).
Starts(t) == task[t].pc = "idle" /\ task'[t].pc # "idle"
\* A step in which caller t issues an HTTP GET.
Gets(t) == task[t].pc = "ready" /\ task'[t].pc = "inflight"
\* A step in which an HTTP request of caller t succeeds.
Succeeds(t) == task[t].pc = "inflight" /\ task'[t].pc = "parse"
\* A step in which process_match of caller t handles the fetched page.
Parses(t) == task[t].pc = "parse" /\ task'[t].pc = "done"

\* C1: in every reachable state the circuit-open timestamp is set only if
\* failure_count >= CIRCUIT_BREAKER_THRESHOLD; below the threshold it is absent.
C1_OpenOnlyAtThreshold ==
    Open => failure_count >= CIRCUIT_BREAKER_THRESHOLD

C1_Witness ==
    Open /\ failure_count >= CIRCUIT_BREAKER_THRESHOLD /\ now > circuit_open_time

\* C2: failure_count is the number of consecutive _record_failure calls since
\* the breaker was last closed with count 0 (construction, a success, a
\* reset), and the circuit is open exactly when that number has reached 5: it
\* opens on the 5th consecutive failure and not before, and after a success
\* the count starts from 0 again.
C2_OpensOnFifthConsecutiveFailure ==
    /\ failure_count = streak
    /\ Open <=> streak >= CIRCUIT_BREAKER_THRESHOLD

C2_Witness ==
    streak = CIRCUIT_BREAKER_THRESHOLD /\ Open

\* C3: a request that starts while the circuit is open and fewer than 60
\* seconds have elapsed returns the failure result without any HTTP call and
\* leaves failure_count and the open timestamp unchanged.
C3_RejectedWhileOpen ==
    [][\A t \in Tasks :
        (Starts(t) /\ Open /\ Elapsed < CIRCUIT_BREAKER_RESET_TIME)
            => /\ task'[t].pc = "done"
               /\ task'[t].soup = "None"
               /\ task'[t].http = 0
               /\ failure_count' = failure_count
               /\ circuit_open_time' = circuit_open_time]_vars

C3_Witness ==
    \E t \in Tasks :
        /\ task[t].pc = "done" /\ task[t].check = "rejected"
        /\ task[t].http = 0 /\ task[t].soup = "None"
        /\ Open /\ Elapsed = CIRCUIT_BREAKER_RESET_TIME - 1

\* C4: in the async client, once the circuit is open no HTTP GET is issued by
\* any task until the reset window has elapsed, retries of requests that
\* passed the check earlier included.
C4_NoGetWhileOpen ==
    [][kind = "async" =>
        \A t \in Tasks :
            Gets(t) => (~Open \/ Elapsed >= CIRCUIT_BREAKER_RESET_TIME)]_vars

\* C5: a request that starts when at least 60 seconds have elapsed since the
\* circuit opened resets the breaker (failure_count 0, no timestamp) and
\* goes on to the network call; when that request succeeds the circuit is
\* closed (failure_count 0, no timestamp).
C5_ResetAfterWindow ==
    [][\A t \in Tasks :
        /\ (Starts(t) /\ Open /\ Elapsed >= CIRCUIT_BREAKER_RESET_TIME)
              => /\ failure_count' = 0
                 /\ circuit_open_time' = NoTime
                 /\ task'[t].pc = "ready"
                 /\ task'[t].attempt = 0
        /\ (Succeeds(t) /\ task[t].check = "reset")
              => /\ failure_count' = 0
                 /\ circuit_open_time' = NoTime]_vars

C5_Witness ==
    \E t \in Tasks :
        /\ task[t].check = "reset" /\ task[t].pc = "parse"
        /\ failure_count = 0 /\ ~Open

\* C6: whenever an HTTP request succeeds _make_request records a success
\* (failure_count 0, timestamp cleared, whatever the count was), and what
\* process_match then does with the page, a parsing error included, leaves
\* the circuit-breaker state as it is.
C6_SuccessRecordedParseNeutral ==
    [][\A t \in Tasks :
        /\ Succeeds(t) => (failure_count' = 0 /\ circuit_open_time' = NoTime)
        /\ Parses(t) => (/\ failure_count' = failure_count
                         /\ circuit_open_time' = circuit_open_time)]_vars

C6_Witness ==
    \E t \in Tasks :
        /\ task[t].pc = "done" /\ task[t].soup = "doc"
        /\ task[t].page = "malformed" /\ task[t].result = "None"
        /\ failure_count = 0 /\ ~Open

\* C7: when every attempt of a request fails with a connection error or a
\* timeout, _make_request makes exactly `retries` HTTP attempts, sleeps
\* between attempts but not after the last one, returns failure and records
\* exactly one failure, which raises failure_count by exactly 1.
C7_AllTransient(t) ==
    task[t].pc = "done" /\ task[t].check # "rejected" /\ task[t].transient

C7_ExhaustedRetries ==
    /\ [](\A t \in Tasks :
            /\ C7_AllTransient(t)
                  => /\ task[t].http = retries
                     /\ task[t].sleeps = retries - 1
                     /\ task[t].soup = "None"
                     /\ task[t].recorded = 1
            /\ (task[t].pc # "done" /\ task[t].transient)
                  => task[t].recorded = 0)
    /\ [][\A t \in Tasks :
            (task'[t].pc = "done" /\ task'[t].recorded = task[t].recorded + 1)
                => failure_count' = failure_count + 1]_vars

C7_Witness ==
    \E t \in Tasks :
        /\ C7_AllTransient(t)
        /\ retries = MAX_RETRIES /\ task[t].http = MAX_RETRIES
        /\ task[t].sleeps = MAX_RETRIES - 1 /\ task[t].recorded = 1

\* C8: in both clients a response with a 4xx status other than 429 is never
\* retried: the request ends there with one failure recorded and the failure
\* result.
C8_PermanentNotRetried ==
    \A t \in Tasks :
        task[t].last = "permanent"
            => /\ task[t].pc = "done"
               /\ task[t].recorded = 1
               /\ task[t].soup = "None"

\* C9: fed the same per-attempt outcomes from the same breaker state, the
\* sync and the async _make_request make the same number of HTTP attempts,
\* return the same kind of result and leave the same failure_count and the
\* same open/closed state.
C9_SyncAsyncAgree ==
    equiv.applied
        => /\ equiv.sync.attempts = equiv.async.attempts
           /\ equiv.sync.soup = equiv.async.soup
           /\ equiv.sync.failure_count = equiv.async.failure_count
           /\ (equiv.sync.circuit_open_time = NoTime)
                 <=> (equiv.async.circuit_open_time = NoTime)

\* C10: _calculate_backoff(n) = min(RETRY_DELAY * 2^n + jitter, 30) for a
\* jitter between 0 and a quarter of RETRY_DELAY * 2^n; so it never exceeds
\* MAX_BACKOFF_DELAY, and the delay of attempt n + 1 is greater than the delay
\* of attempt n whenever the latter is below the cap.
C10_Cap == MAX_BACKOFF_DELAY * Scale

C10_Base == RETRY_DELAY * (2 ^ backoff.attempt) * Scale

C11_SpacedAcquires ==
    /\ limiter.gap # NoTime => limiter.gap >= RATE_LIMIT_DELAY
    /\ limiter.undelayed
    /\ Cardinality({c \in Callers : limiter.pc[c] = "sleep"}) <= 1
    /\ \A c \in Callers : limiter.pc[c] = "sleep" <=> limiter.holder = c

C11_Witness ==
    /\ limiter.acquired >= 3
    /\ limiter.gap = RATE_LIMIT_DELAY
    /\ \E c, e \in Callers :
            c # e /\ limiter.pc[c] = "sleep" /\ limiter.pc[e] = "queued"

\* C12: in the thread-pool batch path no two HTTP requests start less than
\* RATE_LIMIT_DELAY apart.
C12_SpacedGets ==
    pool.gap # NoTime => pool.gap >= RATE_LIMIT_DELAY


\* The data is that of a match neither live nor upcoming.
Stable(data) == ~data.is_live /\ ~data.is_upcoming

\* C13: whatever process_match calls were made, every entry of the memory tier
\* and every file of the cache directory describes a match with is_live and
\* is_upcoming false.
C13_OnlyStableCached ==
    /\ \A i \in 1 .. Len(cache.memory) : Stable(cache.memory[i].data)
    /\ \A u \in Urls : FileExists(cache, u) => Stable(JsonLoad(cache.files[u].text))

C13_Witness ==
    /\ op.name = "process_match" /\ op.fetched = "completed" /\ op.had
    /\ InMemory(cache, op.url) /\ FileExists(cache, op.url)
    /\ JsonLoad(cache.files[op.url].text) = op.data
    /\ op.data # op.found

\* C14: with the cache enabled and upcoming_only false, when the cache holds an
\* unexpired entry for the URL that is neither live nor upcoming, process_match
\* returns that entry, issues no HTTP request, acquires the rate limiter not
\* once and leaves the circuit breaker as it was, open or closed; with
\* upcoming_only true it does not read the cache.
C14_CacheHitIsFree ==
    (op.name = "process_match" /\ cache.enabled) =>
        /\ (~op.upcoming_only /\ op.found # NoData /\ Stable(op.found)) =>
                /\ op.data = op.found
                /\ op.http = 0 /\ op.acquires = 0
                /\ <<failure_count, circuit_open_time>> = op.breaker
        /\ op.upcoming_only => ~op.consulted

C14_Witness ==
    /\ op.name = "process_match" /\ cache.enabled /\ ~op.upcoming_only
    /\ op.found # NoData /\ op.data = op.found /\ op.http = 0
    /\ circuit_open_time # NoTime /\ now - circuit_open_time < CIRCUIT_BREAKER_RESET_TIME
    /\ kind = "async"

Written == op.written[op.url]

\* C16: get(url) at a time later than T + ttl, T the time of the latest
\* set(url), never returns the entry; up to T + ttl, unless the entry was
\* invalidated or cleared, it is a hit.
C16_NoHitAfterExpiry ==
    (op.name = "get" /\ cache.enabled) =>
        /\ op.data # NoData =>
                Written.time # NoTime /\ op.time <= Written.time + TtlSeconds
        /\ (Written.kept /\ op.time <= Written.time + TtlSeconds) =>
                op.data # NoData

\* C17: while the latest set(url) is unexpired and was not invalidated or
\* cleared, get(url) returns exactly its data, whatever other URLs were set
\* since; and of two successive gets of a URL at one time the second returns
\* what the first returned.
C17_LatestData ==
    (op.name = "get" /\ cache.enabled /\ Written.kept
        /\ op.time <= Written.time + TtlSeconds) => op.data = Written.data

C17_SameTwice ==
    (/\ op.name = "get" /\ op'.name = "get" /\ op'.alt # op.alt
     /\ op'.url = op.url /\ op'.time = op.time) => op'.data = op.data

C19_Removed ==
    (op.name = "invalidate" /\ cache.enabled) =>
        /\ ~Held(cache, op.url)
        /\ op.flag => op.had
        /\ op.found # NoData => op.flag

C19_Then ==
    (op.name = "invalidate" /\ cache.enabled /\ op'.url = op.url
        /\ op'.alt # op.alt) =>
        /\ op'.name = "get" => op'.data = NoData
        /\ op'.name = "invalidate" => ~op'.flag

C19_InvalidateReports == []C19_Removed /\ [][C19_Then]_vars

\* C20: on a cache constructed with enabled = false every public operation
\* leaves the memory tier and the files as they were and returns None, False
\* or 0.
C20_DisabledNoOp ==
    (~cache.enabled
        /\ op.name \in {"get", "set", "invalidate", "clear", "clear_expired"}) =>
        /\ ~op.changed
        /\ op.data = NoData /\ ~op.flag /\ op.count = 0


\* C18: the memory tier never holds more than memory_size entries, and a set
\* made with the tier at capacity removes the least recently used entry and no
\* other, an entry being used when a get hits it and when it is set.
C18_LruEviction ==
    /\ Len(cache.memory) <= LruSize
    /\ (op.name = "_memory_set" /\ op.full) => op.removed = {op.lru}

\* The URLs a get at the current time would hit, and those some tier holds.
Retrievable(c) == {u \in Urls : CacheGet(c, u, now).result # NoData}
HeldUrls(c) == {u \in Urls : Held(c, u)}

\* C21: clear() leaves both tiers empty, so that every get misses until the
\* next set of its URL, and returns the number of entries it removed: at
\* least the entries a get would have returned, at most the entries held.
C21_Empty ==
    (op.name = "clear" /\ cache.enabled) =>
        cache.memory = <<>> /\ HeldUrls(cache) = {}

C21_MissUntilSet ==
    (op.name = "get" /\ cache.enabled /\ ~Written.kept) => op.data = NoData

C21_Count ==
    (op'.name = "clear" /\ op'.alt # op.alt /\ cache.enabled) =>
        /\ op'.count >= Cardinality(Retrievable(cache))
        /\ op'.count <= Cardinality(HeldUrls(cache))

C21_ClearEmptiesAndCounts ==
    []C21_Empty /\ []C21_MissUntilSet /\ [][C21_Count]_vars

\* A file from which no timestamp can be read / no entry can be read.
NoTimestamp(file) ==
    LoadError(file) # "none" \/ SubscriptError(file, "timestamp") # "none"
Unusable(file) == NoTimestamp(file) \/ SubscriptError(file, "data") # "none"
Expired(file, t) == ~NoTimestamp(file) /\ t - file.timestamp > TtlSeconds

\* C22: clear_expired() deletes the files whose timestamp is older than the
\* TTL or that fail to parse and no others, returns their number, does not
\* raise, and leaves every entry a get would have returned retrievable with
\* the same data.
C22_Step ==
    (op'.name = "clear_expired" /\ op'.alt # op.alt /\ cache.dir) =>
        /\ op'.raised = "none"
        /\ \A u \in Urls :
            /\ (FileExists(cache, u) /\ (NoTimestamp(cache.files[u])
                    \/ Expired(cache.files[u], now))) => ~FileExists(cache', u)
            /\ cache'.files[u] # cache.files[u] =>
                    /\ ~FileExists(cache', u)
                    /\ Unusable(cache.files[u]) \/ Expired(cache.files[u], now)
            /\ (CacheGet(cache, u, now).raised = "none"
                    /\ CacheGet(cache, u, now).result # NoData) =>
                    CacheGet(cache', u, now).result = CacheGet(cache, u, now).result
        /\ op'.count = Cardinality({u \in Urls : FileExists(cache, u)
                                                  /\ ~FileExists(cache', u)})

C22_ClearExpiredExact == [][C22_Step]_vars

\* C23: get(url) that reaches a file that is unreadable, not valid JSON or
\* without its timestamp or data returns None without raising, deletes the
\* file and promotes nothing, so that the next get(url) misses as well.
C23_Step ==
    (/\ op'.name = "get" /\ op'.alt # op.alt /\ cache.enabled
     /\ MemoryGet(cache.memory, GetCacheKey(op'.url), now).data = NoData
     /\ FileExists(cache, op'.url) /\ Unusable(cache.files[op'.url])) =>
        /\ op'.raised = "none"
        /\ op'.data = NoData
        /\ ~FileExists(cache', op'.url)
        /\ ~InMemory(cache', op'.url)
        /\ CacheGet(cache', op'.url, now).raised = "none"
        /\ CacheGet(cache', op'.url, now).result = NoData

C23_CorruptFileIsMiss == [][C23_Step]_vars

\* The threads inside set / a thread that is writing its temporary file.
Setting(t) == race.pc[t] \in {"set_mkstemp", "set_dump", "set_replace"}
Writing(t) == race.pc[t] = "set_dump" /\ race.chunks[t] = 1

\* C24: the destination file is at every moment absent or one complete entry
\* of one set, so a get that runs while a set is writing reads the previous
\* entry, the new entry or nothing, and after two sets the file is entirely
\* one of theirs; a set that failed or was interrupted has left the
\* destination as it was and no temporary file.
C24_Whole ==
    /\ cache.files[RaceUrl] = NoFile \/ cache.files[RaceUrl] \in race.entries
    /\ \A t \in RaceThreads :
        race.loaded[t] = NoFile \/ race.loaded[t] \in race.entries

C24_NoTmpLeft ==
    \A t \in RaceThreads : race.pc[t] \in {"idle", "done"} => ~race.tmp[t].made

C24_FailKeeps ==
    \A t \in RaceThreads :
        (Setting(t) /\ race'.pc[t] = "done" /\ race'.ret[t].failed) =>
            cache'.files = cache.files

C24_FailWitness ==
    \E t \in RaceThreads :
        /\ race.pc[t] = "done" /\ race.ret[t].failed
        /\ race.chunks[t] = 1 /\ FileExists(cache, RaceUrl)

\* Both tiers hold the same data for the URL, or neither holds an entry.
TiersAgree ==
    LET i == MemoryIndex(cache.memory, RaceKey)
    IN  /\ (i # 0) <=> FileExists(cache, RaceUrl)
        /\ i # 0 => cache.memory[i].data = JsonLoad(cache.files[RaceUrl].text)

\* The cache after one call of the log made alone at time t.
SeqApply(c, call, t) ==
    CASE call.name = "get" -> CacheGet(c, RaceUrl, t).cache
      [] call.name = "set" -> CacheSet(c, RaceUrl, call.data, t)
      [] call.name = "invalidate" -> CacheInvalidate(c, RaceUrl).cache

\* The caches the calls of the log numbered in todo leave when they are made
\* one after the other, in every order.
RECURSIVE SeqOutcomes(_, _, _)
SeqOutcomes(c, todo, t) ==
    IF todo = {} THEN {c}
    ELSE UNION {SeqOutcomes(SeqApply(c, race.log[i], t), todo \ {i}, t) : i \in todo}

\* All calls made have returned, and none of them was a set that failed.
Quiet ==
    /\ \A t \in RaceThreads : race.pc[t] = "idle"
    /\ race.calls > 0 /\ ~race.failed

\* C25: once the concurrent get, set and invalidate calls on a URL have all
\* completed, the memory tier and the file agree, and the cache is as some
\* order of the calls made one after the other would have left it.
C25_Linearizable ==
    Quiet =>
        /\ TiersAgree
        /\ cache \in SeqOutcomes(race.start, DOMAIN race.log, now)

\* The sets of the log, and the entry of each as it stands on disk.
SetCalls == {i \in DOMAIN race.log : race.log[i].name = "set"}
NoInvalidate == \A i \in DOMAIN race.log : race.log[i].name # "invalidate"

\* C39: a get(url) that finds an expired or corrupt file never deletes the
\* entry of a set(url) running at the same time: when the calls have all
\* completed, a set was among them, none failed and none was an invalidate
\* (and no time has passed, so nothing expired), the file of the URL is the
\* entry of one of the sets.
C39_SetSurvivesGet ==
    (Quiet /\ SetCalls # {} /\ NoInvalidate) =>
        /\ FileExists(cache, RaceUrl)
        /\ \E i \in SetCalls :
            cache.files[RaceUrl] = [timestamp |-> now, text |-> JsonDump(race.log[i].data)]

\* A step that is a _memory_set of a key the memory tier holds.
SetsHeld ==
    /\ op'.name = "_memory_set" /\ op'.alt # op.alt
    /\ GetCacheKey(op'.url) \in KeysOf(cache.memory)

\* C40: a set of a URL that is already in the memory tier replaces its entry
\* without evicting any other entry and makes the URL the most recently used
\* one (the last of the order, popitem(last=False) taking the first).
C40_SetExisting ==
    [][SetsHeld =>
        /\ KeysOf(cache'.memory) = KeysOf(cache.memory)
        /\ Len(cache'.memory) = Len(cache.memory)
        /\ LET last == cache'.memory[Len(cache'.memory)]
           IN  last.key = GetCacheKey(op'.url) /\ last.timestamp = now]_vars

\* The positions of the batch, and those whose process_match has ended.
Positions == 1 .. Len(batch.links)
Ended == {i \in Positions : batch.ev[i] # "pending"}
Returned == batch.pc \in {"returned", "tallied"}

\* C26: process_match, sync and async, raises nothing and returns None when
\* the request fails on the network, the breaker rejects it, or parsing or
\* data extraction raises.
C26_NeverPropagates ==
    \A i \in Ended :
        batch.ev[i] \in RequestErrors \cup BodyErrors =>
            batch.out[i] = [result |-> None, raised |-> "none"]

\* A sync client has met an error no except clause names, and the open
\* breaker.
C26_Witness ==
    /\ batch.k = "sync"
    /\ \E i, j \in Ended : batch.ev[i] = "RuntimeError" /\ batch.ev[j] = "circuit_open"
    /\ \A i \in Ended : batch.out[i].raised = "none"

\* C27: for a TBD team process_match returns a value that is neither a match
\* nor the failure result, and the batch processor returns with its list the
\* number of links that gave it, none of which is in the list.
C27_TbdCounted ==
    /\ \A i \in Ended :
        batch.ev[i] = "tbd" =>
            batch.out[i].result \notin
                {None} \cup {FormatMatchOutput(k, BuildMatch(p)) :
                                k \in Kinds, p \in FetchedPages \ {"tbd"}}
    /\ (Returned /\ batch.raised = "none") =>
        /\ batch.tbd_count = Cardinality({i \in Positions : batch.ev[i] = "tbd"})
        /\ \A i \in Positions :
            batch.ev[i] = "tbd" =>
                \A n \in 1 .. Len(batch.returned) :
                    batch.returned[n] # <<batch.links[i], batch.out[i].result>>

\* The positions whose link the returned list is to hold: process_match
\* fetched a match, and the match passes the view filter ("results": the
\* finished matches; "upcoming": those not finished).
PassesView(match, view_mode) ==
    CASE view_mode = "results" -> match = "completed"
      [] view_mode = "upcoming" -> match \in {"upcoming", "countdown", "live"}
      [] OTHER -> TRUE
Included ==
    {i \in Positions : /\ batch.ev[i] \in FetchedPages \ {"tbd"}
                       /\ PassesView(batch.ev[i], batch.view_mode)}
\* The input sequence, each link with its result, restricted to the
\* positions S, from position i on.
RECURSIVE RestrictedTo(_, _)
RestrictedTo(S, i) ==
    IF i > Len(batch.links) THEN <<>>
    ELSE (IF i \in S THEN <<<<batch.links[i], batch.out[i].result>>>> ELSE <<>>)
            \o RestrictedTo(S, i + 1)

\* C28: whatever the order in which the fetches complete, the returned list
\* is the input sequence restricted to some of its positions: the links
\* returned stand in the order of their positions in the input.
C28_InputOrder ==
    (Returned /\ batch.raised = "none") =>
        \E S \in SUBSET Positions : batch.returned = RestrictedTo(S, 1)

Count(seq, x) == Cardinality({n \in 1 .. Len(seq) : seq[n] = x})
SameItems(s1, s2) ==
    /\ Len(s1) = Len(s2)
    /\ \A n \in 1 .. Len(s1) : Count(s1, s1[n]) = Count(s2, s1[n])

\* C29: the batch processor raises nothing when the fetch of a link raises,
\* and the list it returns holds exactly the links whose fetch returned a
\* match that passes the view filter.
C29_OthersReturned ==
    /\ batch.raised = "none"
    /\ Returned => SameItems(batch.returned, RestrictedTo(Included, 1))

\* C30: with a progress callback given, the batch processor has invoked it
\* once for every input link when it returns, whether the fetch of the link
\* succeeded, gave TBD, failed or raised.
C30_CallbackPerLink ==
    (Returned /\ batch.callback) => batch.calls = Len(batch.links)

\* C31: in view mode "results" the returned list holds no upcoming match,
\* whether its score is the not-started text or a countdown, and no live
\* match, and holds every finished match that was fetched.
C31_ResultsOnlyCompleted ==
    (Returned /\ batch.raised = "none" /\ batch.view_mode = "results") =>
        \A i \in Positions :
            LET item == <<batch.links[i], batch.out[i].result>>
            IN  /\ batch.ev[i] \in {"upcoming", "countdown", "live"} =>
                    Count(batch.returned, item) = 0
                /\ batch.ev[i] = "completed" => Count(batch.returned, item) > 0

\* The links whose fetch failed, and those whose match the batch fetched
\* and did not return.
FailedLinks == {i \in Positions : batch.ev[i] \notin FetchedPages}
FilteredLinks ==
    {i \in Positions :
        /\ batch.ev[i] \in FetchedPages \ {"tbd"}
        /\ Count(batch.returned, <<batch.links[i], batch.out[i].result>>) = 0}

\* C32: the failed tally reported for a batch is the number of links whose
\* fetch failed, a link excluded by the view filter not being among them:
\* displayed + tbd + failed + filtered = total.
C32_FilteredNotFailed ==
    batch.pc = "tallied" =>
        /\ batch.stats.failed = Cardinality(FailedLinks)
        /\ batch.stats.displayed + batch.stats.tbd_count + batch.stats.failed
                + Cardinality(FilteredLinks) = batch.stats.total

RECURSIVE Split(_, _)
Split(text, current) ==
    IF text = <<>> THEN <<current>>
    ELSE IF Head(text) = "-" THEN <<current>> \o Split(Tail(text), <<>>)
    ELSE Split(Tail(text), Append(current, Head(text)))
Segments(text) == Split(Lower(text), <<>>)
HasSegment(href, slug) ==
    LET segs == Segments(href)
        s == Segments(slug)
    IN  \E i \in 1 .. Len(segs) - Len(s) + 1 : SubSeq(segs, i, i + Len(s) - 1) = s
\* The slug found in the href is part of the longer slug of another event
\* that the href holds.
PartOfOther(href, slug) ==
    \E other \in EventSlugs :
        /\ Len(other) > Len(slug)
        /\ HasSegment(other, slug)
        /\ HasSegment(href, other)
BeginsWithNumber(href) == href[1] = "/" /\ href[2] \in NumberPieces /\ href[3] = "/"

\* C34: fetch_event_matches returns exactly the anchors whose href begins
\* with /<digits>/ and, a slug being known, holds the slug (whatever the
\* case) as complete hyphen-delimited words, and not as part of the slug of
\* another event.
C34_SlugSegment ==
    (listing.pc = "returned" /\ listing.soup) =>
        LET slug == KnownSlug(listing.event_slug, listing.url_slug)
            wanted(href) ==
                /\ BeginsWithNumber(href)
                /\ slug # <<>> => (HasSegment(href, slug) /\ ~PartOfOther(href, slug))
        IN  listing.returned = SelectSeq(listing.anchors, wanted)

\* No thread is inside a circuit-breaker method.
AllOut == \A t \in BreakerThreads : breaker.pc[t] = "idle"

\* C35: the worker threads update the breaker atomically: the
\* _record_failure calls made, n of them, have raised failure_count by n, and
\* no interleaving with _record_success or _check_circuit_breaker leaves
\* the open timestamp set while failure_count is below the threshold.
C35_AtomicBreaker ==
    AllOut =>
        /\ ~breaker.others =>
                breaker.failure_count = breaker.start + breaker.failures
        /\ breaker.circuit_open_time # NoTime =>
                breaker.failure_count >= CIRCUIT_BREAKER_THRESHOLD

\* A countdown score: the digits the text opens with, one at least, are
\* followed by d, h or m and by whitespace.
LeadingDigits(score) ==
    Cardinality({n \in 1 .. Len(score) : \A i \in 1 .. n : score[i] \in DigitChars})
IsCountdown(score) ==
    LET n == LeadingDigits(score)
    IN  /\ n >= 1 /\ Len(score) >= n + 2
        /\ score[n + 1] \in {"d", "h", "m"} /\ score[n + 2] = " "
\* The status an upcoming match is to be shown with.
ExpectedEta(score) ==
    IF IsCountdown(score) THEN <<"in", " ">> \o score ELSE <<"UPCOMING">>

\* C36: both clients show an upcoming match with a countdown score as
\* "in <score>", without the word UPCOMING, and any other upcoming match as
\* UPCOMING; format_eta returns "in <score>" exactly for the countdown
\* scores and UPCOMING for every other text.
C36_EtaFormat ==
    eta.pc = "formatted" =>
        /\ eta.format_eta = ExpectedEta(eta.score)
        /\ eta.sync = OutputHead \o ExpectedEta(eta.score)
        /\ eta.async = OutputHead \o ExpectedEta(eta.score)
        /\ IsCountdown(eta.score) =>
                (~Contains(eta.sync, "UPCOMING") /\ ~Contains(eta.async, "UPCOMING"))

\* C37: under fair scheduling every caller of acquire() returns: the callers
\* complete one at a time, and the lock is free again after each of them.
C37_AcquireReturns ==
    /\ \A c \in Callers : (limiter.pc[c] = "queued") ~> (limiter.pc[c] = "done")
    /\ [](\A c \in Callers : limiter.pc[c] \in {"idle", "done"} => limiter.holder # c)

\* All callers have been inside acquire() at once, and all have returned.
C37_Witness ==
    /\ limiter.acquired >= Cardinality(Callers)
    /\ limiter.holder = "none"
    /\ \A c \in Callers : limiter.pc[c] = "done"
    /\ limiter.gap = RATE_LIMIT_DELAY

\* C38: once the circuit has opened, a failure recorded while it is open (by
\* a request that was in flight) does not move the open timestamp: the block
\* ends CIRCUIT_BREAKER_RESET_TIME after the first opening at the latest.
C38_OpenTimeFixed ==
    [][(circuit_open_time # NoTime /\ circuit_open_time' # NoTime)
            => circuit_open_time' = circuit_open_time]_vars

====
